---- MODULE Spec2Model ----
(***************************************************************************)
(* ts-array-joins: in-memory join operators over arrays of records.        *)
(*                                                                         *)
(* JavaScript values are modelled as follows.                              *)
(*   scalar     [t |-> "number" | "string" | "null" | "undefined",         *)
(*               s |-> the result of String(v)]                            *)
(*   array      [t |-> "array", items |-> sequence of values]              *)
(*   Map        [t |-> "map", entries |-> sequence of [key, value], in     *)
(*               insertion order]                                          *)
(*   {} object  [t |-> "object", keys |-> own keys in enumeration order,   *)
(*               m |-> function from property strings to values]           *)
(*   caller record (parent, child, middle, enriched record)                *)
(*              a TLA+ function from field names to values; the field      *)
(*              names used never include "t".                              *)
(* An array or a record the caller holds a reference to carries the field  *)
(* identity, which names the object: two values are the same object when   *)
(* their identities are equal, whatever they contain.  An array or record  *)
(* without the field is an object no other reference denotes.              *)
(* Every operator is a pure function of its parameters; an action applies  *)
(* one operator to the inputs and stores what it returns, and in calls the *)
(* arguments of the invocations of a callback the caller passed.           *)
(***************************************************************************)
EXTENDS Integers, Sequences, FiniteSets, TLC

VARIABLES parents, children, middle, inputItems, op, args, result, calls,
          pc, scanned, index, emitted, pairs, mids, stack, heap

vars == <<parents, children, middle, inputItems, op, args, result, calls,
          pc, scanned, index, emitted, pairs, mids, stack, heap>>

\* the position of a call that is followed step by step: its phase, the
\* children its index loop has visited and the index built from them, the
\* parents and the parent-middle pairs its output pass has visited, the
\* enriched middle records built for the parent the pass is at, the
\* pending calls of a recursive grouping, and the arrays the call can write
Run == <<pc, scanned, index, emitted, pairs, mids, stack, heap>>

(***************************************************************************)
(* Bounds of the model.                                                    *)
(***************************************************************************)
MaxParents == 2
MaxChildren == 2
MaxMiddle == 2
MaxItems == 3

(***************************************************************************)
(* Values.                                                                 *)
(***************************************************************************)
Num(s) == [t |-> "number", s |-> s]
Str(s) == [t |-> "string", s |-> s]
Null == [t |-> "null", s |-> "null"]
Undefined == [t |-> "undefined", s |-> "undefined"]
Arr(items) == [t |-> "array", items |-> items]

IsTagged(v) == "t" \in DOMAIN v
IsArray(v) == IsTagged(v) /\ v.t = "array"
IsNullish(v) == IsTagged(v) /\ v.t \in {"null", "undefined"}
\* typeof v === "object" for a truthy v: arrays, {} objects, Maps, records
IsObjectLike(v) ==
    ~IsTagged(v) \/ v.t \in {"array", "object", "map", "prototype"}

\* Object.prototype, the prototype of every {} object and of every record
ObjectPrototype == [t |-> "prototype", s |-> "Object.prototype"]
\* Array.prototype, the prototype of every array: itself an array, empty
ArrayPrototype == [t |-> "array", items |-> <<>>, s |-> "Array.prototype"]
\* Map.prototype, the prototype of every Map: an object that is not a Map
MapPrototype == [t |-> "prototype", s |-> "Map.prototype"]
\* the completion of a call that throws a TypeError
Thrown == [t |-> "thrown", s |-> "TypeError"]

\* the property names Object.prototype defines
ObjectPrototypeNames ==
    {"constructor", "__defineGetter__", "__defineSetter__", "hasOwnProperty",
     "__lookupGetter__", "__lookupSetter__", "isPrototypeOf",
     "propertyIsEnumerable", "toString", "valueOf", "__proto__",
     "toLocaleString"}
\* the property names Array.prototype defines in the engine the package
\* runs on (Node.js 20), besides length
ArrayPrototypeNames ==
    {"at", "concat", "constructor", "copyWithin", "entries", "every", "fill",
     "filter", "find", "findIndex", "findLast", "findLastIndex", "flat",
     "flatMap", "forEach", "includes", "indexOf", "join", "keys",
     "lastIndexOf", "map", "pop", "push", "reduce", "reduceRight", "reverse",
     "shift", "slice", "some", "sort", "splice", "toLocaleString",
     "toReversed", "toSorted", "toSpliced", "toString", "unshift", "values",
     "with"}
\* the property names Map.prototype defines; size is an accessor
MapPrototypeNames ==
    {"clear", "constructor", "delete", "entries", "forEach", "get", "has",
     "keys", "set", "size", "values"}
\* the value of the property k that current, an object, a record, an array,
\* a Map or a prototype, finds on its prototype chain: a function object,
\* named by the expression that denotes it (typeof gives "function", and the
\* value is truthy); for the accessor __proto__ the prototype of current;
\* for the accessor size the number of entries of a Map, and a TypeError on
\* Map.prototype, which is no Map; undefined for a name the chain lacks
InheritedValue(current, k) ==
    IF k = "__proto__"
    THEN IF current = ObjectPrototype THEN Null
         ELSE IF current \in {ArrayPrototype, MapPrototype}
         THEN ObjectPrototype
         ELSE IF IsArray(current) THEN ArrayPrototype
         ELSE IF IsTagged(current) /\ current.t = "map" THEN MapPrototype
         ELSE ObjectPrototype
    ELSE IF IsArray(current) /\ k \in ArrayPrototypeNames
    THEN [t |-> "function",
          s |-> IF k = "constructor" THEN "Array"
                ELSE "Array.prototype." \o k]
    ELSE IF /\ IsTagged(current) /\ k \in MapPrototypeNames
            /\ (current.t = "map" \/ current = MapPrototype)
    THEN IF k # "size"
         THEN [t |-> "function",
               s |-> IF k = "constructor" THEN "Map"
                     ELSE "Map.prototype." \o k]
         ELSE IF current.t = "map"
         THEN Num(ToString(Len(current.entries)))
         ELSE Thrown
    ELSE IF k \in ObjectPrototypeNames
    THEN [t |-> "function",
          s |-> IF k = "constructor" THEN "Object"
                ELSE "Object.prototype." \o k]
    ELSE Undefined

\* x ?? d
Coalesce(x, d) == IF IsNullish(x) THEN d ELSE x

\* record[field]; reading a field the record lacks gives undefined
Get(r, f) == IF f \in DOMAIN r THEN r[f] ELSE Undefined

\* array.join(sep) of an array of strings
RECURSIVE Join(_, _)
Join(strings, sep) ==
    IF Len(strings) = 0 THEN ""
    ELSE IF Len(strings) = 1 THEN strings[1]
    ELSE strings[1] \o sep \o Join(Tail(strings), sep)

\* String(v), which is also the property key v is converted to: the text of
\* a scalar; for an array its elements converted and joined by a comma, a
\* null or undefined element giving the empty string; "[object Object]"
\* for a record, a {} object and Object.prototype; "[object Map]" for a Map
\* and for Map.prototype, whose toStringTag is "Map"; for a built-in
\* function the source text the engine gives, with the name of the function
RECURSIVE String(_)
String(v) ==
    IF ~IsTagged(v) THEN "[object Object]"
    ELSE IF v.t = "array"
    THEN Join([i \in 1..Len(v.items) |->
                  IF IsNullish(v.items[i]) THEN "" ELSE String(v.items[i])],
              ",")
    ELSE IF v.t = "object" \/ v = ObjectPrototype THEN "[object Object]"
    ELSE IF v.t = "map" \/ v = MapPrototype THEN "[object Map]"
    ELSE IF v.t = "function"
    THEN LET dots == {i \in 1..Len(v.s) : SubSeq(v.s, i, i) = "."}
             last == CHOOSE i \in dots : \A j \in dots : j <= i
             name == IF dots = {} THEN v.s
                     ELSE SubSeq(v.s, last + 1, Len(v.s))
         IN  "function " \o name \o "() { [native code] }"
    ELSE v.s

\* { [as]: value, ...record }: a variant in which a field of the record
\* replaces the computed property of the same name
Spread_fieldsLast(r, as, v) ==
    [f \in (DOMAIN r \ {"identity"}) \cup {as} |->
        IF f \in DOMAIN r THEN r[f] ELSE v]

\* { ...record, [as]: value }: a new object with the fields of the record,
\* then the computed property, which replaces a field of the same name
Spread(r, as, v) ==
    [f \in (DOMAIN r \ {"identity"}) \cup {as} |-> IF f = as THEN v ELSE r[f]]

(***************************************************************************)
(* Sameness of values.  Scalars are the same when their type and value are *)
(* (the model has no -0).  Objects (arrays, records, {} objects, Maps) are *)
(* the same when they are one object: both carry an identity and the       *)
(* identities are equal; the built-in objects, which carry a name in s,    *)
(* are the same when they are equal.                                       *)
(***************************************************************************)
IsScalar(v) ==
    IsTagged(v) /\ v.t \in {"number", "string", "null", "undefined"}

\* SameValueZero(a, b), the comparison of Map keys: NaN is the same as NaN
SameValueZero(a, b) ==
    IF IsScalar(a) \/ IsScalar(b) THEN IsScalar(a) /\ IsScalar(b) /\ a = b
    ELSE IF "identity" \in DOMAIN a /\ "identity" \in DOMAIN b
    THEN a.identity = b.identity
    ELSE "s" \in DOMAIN a /\ "s" \in DOMAIN b /\ a = b

\* a === b: as SameValueZero, except that NaN equals nothing, itself included
StrictEquals(a, b) == SameValueZero(a, b) /\ a # Num("NaN")

(***************************************************************************)
(* Map: the entries in insertion order; keys are compared with             *)
(* SameValueZero.                                                          *)
(***************************************************************************)
NewMap == [t |-> "map", entries |-> <<>>]
MapHas(map, k) ==
    \E i \in 1..Len(map.entries) : SameValueZero(map.entries[i].key, k)
MapGet(map, k) ==
    IF MapHas(map, k)
    THEN map.entries[CHOOSE i \in 1..Len(map.entries) :
                         SameValueZero(map.entries[i].key, k)].value
    ELSE Undefined
MapSet(map, k, v) ==
    IF MapHas(map, k)
    THEN [map EXCEPT !.entries =
              [i \in 1..Len(map.entries) |->
                  IF SameValueZero(map.entries[i].key, k)
                  THEN [key |-> map.entries[i].key, value |-> v]
                  ELSE map.entries[i]]]
    ELSE [map EXCEPT !.entries = Append(@, [key |-> k, value |-> v])]

\* no call is being followed step by step
RunIdle ==
    /\ pc = "idle"
    /\ scanned = 0
    /\ index = NewMap
    /\ emitted = 0
    /\ pairs = 0
    /\ mids = <<>>
    /\ stack = <<>>
    /\ heap = <<>>

\* array.push(x)
Push(a, x) == Arr(Append(a.items, x))

\* array[0], undefined when the array is empty
First(a) == IF Len(a.items) > 0 THEN a.items[1] ELSE Undefined

(***************************************************************************)
(* attachChildren: one-to-many join on one field.                          *)
(***************************************************************************)
\* a variant whose index keeps only the latest child of a key
RECURSIVE attachChildren_childrenByKey_overwrite(_, _)
attachChildren_childrenByKey_overwrite(params, n) ==
    IF n = 0 THEN NewMap
    ELSE LET child == params.children[n]
         IN  MapSet(attachChildren_childrenByKey_overwrite(params, n - 1),
                    Get(child, params.childKey), Arr(<<child>>))

\* the index after the first n children
RECURSIVE attachChildren_childrenByKey(_, _)
attachChildren_childrenByKey(params, n) ==
    IF n = 0 THEN NewMap
    ELSE LET map == attachChildren_childrenByKey(params, n - 1)
             child == params.children[n]
             key == Get(child, params.childKey)
             existing == MapGet(map, key)
         IN  IF ~IsNullish(existing)
             THEN MapSet(map, key, Push(existing, child))
             ELSE MapSet(map, key, Arr(<<child>>))

attachChildren(params) ==
    LET childrenByKey ==
            attachChildren_childrenByKey(params, Len(params.children))
    IN  Arr([i \in 1..Len(params.parents) |->
            LET parent == params.parents[i]
                parentKeyValue == Get(parent, params.parentKey)
                matchingChildren ==
                    Coalesce(MapGet(childrenByKey, parentKeyValue), Arr(<<>>))
            IN  Spread(parent, params.as, matchingChildren)])

(***************************************************************************)
(* attachChild: one-to-one join on one field, first match wins.            *)
(***************************************************************************)
\* a variant whose index lets a later child replace an earlier one
RECURSIVE attachChild_childByKey_lastWins(_, _)
attachChild_childByKey_lastWins(params, n) ==
    IF n = 0 THEN NewMap
    ELSE LET child == params.children[n]
         IN  MapSet(attachChild_childByKey_lastWins(params, n - 1),
                    Get(child, params.childKey), child)

RECURSIVE attachChild_childByKey(_, _)
attachChild_childByKey(params, n) ==
    IF n = 0 THEN NewMap
    ELSE LET map == attachChild_childByKey(params, n - 1)
             child == params.children[n]
             key == Get(child, params.childKey)
         IN  IF ~MapHas(map, key) THEN MapSet(map, key, child) ELSE map

\* a variant that leaves undefined where no child matches
attachChild_undefinedMarker(params) ==
    LET childByKey == attachChild_childByKey(params, Len(params.children))
    IN  Arr([i \in 1..Len(params.parents) |->
            LET parent == params.parents[i]
                parentKeyValue == Get(parent, params.parentKey)
            IN  Spread(parent, params.as, MapGet(childByKey, parentKeyValue))])

attachChild(params) ==
    LET childByKey == attachChild_childByKey(params, Len(params.children))
    IN  Arr([i \in 1..Len(params.parents) |->
            LET parent == params.parents[i]
                parentKeyValue == Get(parent, params.parentKey)
                matchingChild ==
                    Coalesce(MapGet(childByKey, parentKeyValue), Null)
            IN  Spread(parent, params.as, matchingChild)])

(***************************************************************************)
(* joinBySelectors: the join on computed keys.  A selector of the model is *)
(* the projection of one field, item => item[field].                       *)
(***************************************************************************)
Select(selector, item) == Get(item, selector.field)

RECURSIVE joinBySelectors_childrenByKey(_, _)
joinBySelectors_childrenByKey(params, n) ==
    IF n = 0 THEN NewMap
    ELSE LET map == joinBySelectors_childrenByKey(params, n - 1)
             child == params.children[n]
             key == Select(params.childSelector, child)
             existing == MapGet(map, key)
         IN  IF ~IsNullish(existing)
             THEN MapSet(map, key, Push(existing, child))
             ELSE MapSet(map, key, Arr(<<child>>))

\* a one-to-one index that keeps the last child of a key
RECURSIVE joinBySelectors_childByKey_lastWins(_, _)
joinBySelectors_childByKey_lastWins(params, n) ==
    IF n = 0 THEN NewMap
    ELSE LET map == joinBySelectors_childByKey_lastWins(params, n - 1)
             child == params.children[n]
             key == Select(params.childSelector, child)
         IN  MapSet(map, key, child)

RECURSIVE joinBySelectors_childByKey(_, _)
joinBySelectors_childByKey(params, n) ==
    IF n = 0 THEN NewMap
    ELSE LET map == joinBySelectors_childByKey(params, n - 1)
             child == params.children[n]
             key == Select(params.childSelector, child)
         IN  IF ~MapHas(map, key) THEN MapSet(map, key, child) ELSE map

joinBySelectors(params) ==
    IF params.mode = Str("many")
    THEN LET childrenByKey ==
                 joinBySelectors_childrenByKey(params, Len(params.children))
         IN  Arr([i \in 1..Len(params.parents) |->
                 LET parent == params.parents[i]
                     key == Select(params.parentSelector, parent)
                     matchingChildren ==
                         Coalesce(MapGet(childrenByKey, key), Arr(<<>>))
                 IN  Spread(parent, params.as, matchingChildren)])
    ELSE LET childByKey ==
                 joinBySelectors_childByKey(params, Len(params.children))
         IN  Arr([i \in 1..Len(params.parents) |->
                 LET parent == params.parents[i]
                     key == Select(params.parentSelector, parent)
                     matchingChild == Coalesce(MapGet(childByKey, key), Null)
                 IN  Spread(parent, params.as, matchingChild)])

(***************************************************************************)
(* Composite keys: the values of the key fields, rendered and joined.      *)
(***************************************************************************)
Separator == "||~~||"

\* values.map((v) => String(v ?? "")).join("||~~||")
createCompositeKey(values) ==
    Str(Join([i \in 1..Len(values) |-> String(Coalesce(values[i], Str("")))],
             Separator))

\* the extractor makeCompositeKeyExtractor(keys) returns, applied to item
makeCompositeKeyExtractor(keys, item) ==
    LET values == [i \in 1..Len(keys) |-> Get(item, keys[i])]
    IN  createCompositeKey(values)

(***************************************************************************)
(* attachChildrenComposite, attachChildComposite: the serialized strategy. *)
(***************************************************************************)
RECURSIVE attachChildrenComposite_childrenByKey(_, _)
attachChildrenComposite_childrenByKey(params, n) ==
    IF n = 0 THEN NewMap
    ELSE LET map == attachChildrenComposite_childrenByKey(params, n - 1)
             child == params.children[n]
             key == makeCompositeKeyExtractor(params.childKeys, child)
             existing == MapGet(map, key)
         IN  IF ~IsNullish(existing)
             THEN MapSet(map, key, Push(existing, child))
             ELSE MapSet(map, key, Arr(<<child>>))

attachChildrenComposite(params) ==
    LET childrenByKey ==
            attachChildrenComposite_childrenByKey(params, Len(params.children))
    IN  Arr([i \in 1..Len(params.parents) |->
            LET parent == params.parents[i]
                parentKey == makeCompositeKeyExtractor(params.parentKeys, parent)
                matchingChildren ==
                    Coalesce(MapGet(childrenByKey, parentKey), Arr(<<>>))
            IN  Spread(parent, params.as, matchingChildren)])

RECURSIVE attachChildComposite_childByKey(_, _)
attachChildComposite_childByKey(params, n) ==
    IF n = 0 THEN NewMap
    ELSE LET map == attachChildComposite_childByKey(params, n - 1)
             child == params.children[n]
             key == makeCompositeKeyExtractor(params.childKeys, child)
         IN  IF ~MapHas(map, key) THEN MapSet(map, key, child) ELSE map

\* a one-to-one composite join that marks absence with undefined
attachChildComposite_undefinedMarker(params) ==
    LET childByKey ==
            attachChildComposite_childByKey(params, Len(params.children))
    IN  Arr([i \in 1..Len(params.parents) |->
            LET parent == params.parents[i]
                parentKey == makeCompositeKeyExtractor(params.parentKeys, parent)
                matchingChild == Coalesce(MapGet(childByKey, parentKey), Undefined)
            IN  Spread(parent, params.as, matchingChild)])

attachChildComposite(params) ==
    LET childByKey ==
            attachChildComposite_childByKey(params, Len(params.children))
    IN  Arr([i \in 1..Len(params.parents) |->
            LET parent == params.parents[i]
                parentKey == makeCompositeKeyExtractor(params.parentKeys, parent)
                matchingChild == Coalesce(MapGet(childByKey, parentKey), Null)
            IN  Spread(parent, params.as, matchingChild)])

(***************************************************************************)
(* Plain objects used as mappings.  A value used as a property key is      *)
(* converted with String.  Own keys enumerate with the array-index keys    *)
(* first, in ascending order, then the other strings in creation order.    *)
(* Reading a property, and the in operator, consult the prototype chain:    *)
(* a name Object.prototype defines is found on every object.               *)
(***************************************************************************)
NewObject == [t |-> "object", keys |-> <<>>, m |-> <<>>]

\* the value of a decimal digit, -1 for another character
DigitValue(c) ==
    CASE c = "0" -> 0 [] c = "1" -> 1 [] c = "2" -> 2 [] c = "3" -> 3
      [] c = "4" -> 4 [] c = "5" -> 5 [] c = "6" -> 6 [] c = "7" -> 7
      [] c = "8" -> 8 [] c = "9" -> 9 [] OTHER -> -1
\* the number a string of at most nine decimal digits denotes
RECURSIVE DecimalValue(_)
DecimalValue(k) ==
    IF Len(k) = 0 THEN 0
    ELSE DecimalValue(SubSeq(k, 1, Len(k) - 1)) * 10
         + DigitValue(SubSeq(k, Len(k), Len(k)))
\* the number of a canonical numeric string, in two parts: what stands
\* before its last five digits, and its last five digits
IndexHigh(k) == IF Len(k) > 5 THEN DecimalValue(SubSeq(k, 1, Len(k) - 5)) ELSE 0
IndexLow(k) ==
    IF Len(k) > 5 THEN DecimalValue(SubSeq(k, Len(k) - 4, Len(k)))
    ELSE DecimalValue(k)
\* k is an array index: the canonical string of an integer in 0..2^32-2
IsArrayIndex(k) ==
    /\ Len(k) >= 1
    /\ Len(k) <= 10
    /\ \A i \in 1..Len(k) : DigitValue(SubSeq(k, i, i)) >= 0
    /\ Len(k) > 1 => SubSeq(k, 1, 1) # "0"
    /\ Len(k) = 10 =>
           \/ IndexHigh(k) < 42949
           \/ IndexHigh(k) = 42949 /\ IndexLow(k) <= 67294
\* the array index a is smaller than the array index b
IndexBefore(a, b) ==
    \/ IndexHigh(a) < IndexHigh(b)
    \/ IndexHigh(a) = IndexHigh(b) /\ IndexLow(a) < IndexLow(b)
\* the own keys after creating property k
InsertKey(keys, k) ==
    IF ~IsArrayIndex(k) THEN Append(keys, k)
    ELSE LET before == SelectSeq(keys, LAMBDA x :
                           IsArrayIndex(x) /\ IndexBefore(x, k))
             after == SelectSeq(keys, LAMBDA x :
                           ~IsArrayIndex(x) \/ IndexBefore(k, x))
         IN  before \o <<k>> \o after

\* k in obj
ObjHas(obj, k) == k \in DOMAIN obj.m \/ k \in ObjectPrototypeNames
\* obj[k]
ObjGet(obj, k) ==
    IF k \in DOMAIN obj.m THEN obj.m[k]
    ELSE IF k \in ObjectPrototypeNames THEN InheritedValue(obj, k)
    ELSE Undefined
ObjSet(obj, k, v) ==
    [t |-> "object",
     keys |-> IF k \in DOMAIN obj.m THEN obj.keys ELSE InsertKey(obj.keys, k),
     m |-> [x \in DOMAIN obj.m \cup {k} |-> IF x = k THEN v ELSE obj.m[x]]]
\* obj[k].push(x): a TypeError when obj[k] is a value without a push method,
\* as the functions and the prototype an object inherits are
PushAt(obj, k, x) ==
    IF IsArray(ObjGet(obj, k)) THEN ObjSet(obj, k, Push(ObjGet(obj, k), x))
    ELSE Thrown

(***************************************************************************)
(* createNestedGroups, getFromNestedGroups: the nested index.              *)
(***************************************************************************)
\* the one-key loop: result after the first n items
RECURSIVE createNestedGroups_result(_, _, _)
createNestedGroups_result(items, key, n) ==
    IF n = 0 THEN NewObject
    ELSE LET result0 == createNestedGroups_result(items, key, n - 1)
             item == items[n]
             groupKey == String(Get(item, key))
             result1 == IF IsNullish(ObjGet(result0, groupKey))
                        THEN ObjSet(result0, groupKey, Arr(<<>>))
                        ELSE result0
         IN  IF result0 = Thrown THEN Thrown
             ELSE PushAt(result1, groupKey, item)

\* the first-level loop of the many-key case
RECURSIVE createNestedGroups_firstLevelGroups(_, _, _)
createNestedGroups_firstLevelGroups(items, firstKey, n) ==
    IF n = 0 THEN NewObject
    ELSE LET groups0 == createNestedGroups_firstLevelGroups(items, firstKey, n - 1)
             item == items[n]
             groupKey == String(Get(item, firstKey))
             groups1 == IF IsNullish(ObjGet(groups0, groupKey))
                        THEN ObjSet(groups0, groupKey, Arr(<<>>))
                        ELSE groups0
         IN  IF groups0 = Thrown THEN Thrown
             ELSE PushAt(groups1, groupKey, item)

RECURSIVE createNestedGroups(_, _)
RECURSIVE createNestedGroups_entries(_, _, _)
\* the loop over Object.entries(firstLevelGroups): result after n entries
createNestedGroups_entries(firstLevelGroups, restKeys, n) ==
    IF n = 0 THEN NewObject
    ELSE LET groupKey == firstLevelGroups.keys[n]
             groupItems == firstLevelGroups.m[groupKey]
             result0 ==
                 createNestedGroups_entries(firstLevelGroups, restKeys, n - 1)
             nested == createNestedGroups(groupItems.items, restKeys)
         IN  IF result0 = Thrown \/ nested = Thrown THEN Thrown
             ELSE ObjSet(result0, groupKey, nested)

\* items: the sequence of the records of the items array
createNestedGroups(items, keys) ==
    IF Len(keys) = 0 THEN Arr(items)
    ELSE IF Len(keys) = 1
    THEN createNestedGroups_result(items, keys[1], Len(items))
    ELSE LET firstLevelGroups ==
                 createNestedGroups_firstLevelGroups(items, keys[1], Len(items))
         IN  IF firstLevelGroups = Thrown THEN Thrown
             ELSE createNestedGroups_entries(firstLevelGroups, Tail(keys),
                                             Len(firstLevelGroups.keys))

\* safeKey in current, for an object-like current and a non-nullish key.
\* An array has the elements below its length: the length is compared as a
\* canonical numeric string, so that every array index is compared exactly.
In(safeKey, current) ==
    LET k == String(safeKey)
    IN  IF ~IsTagged(current)
        THEN k \in DOMAIN current \/ k \in ObjectPrototypeNames
        ELSE IF current.t = "object" THEN ObjHas(current, k)
        ELSE IF current.t = "prototype"
        THEN \/ k \in ObjectPrototypeNames
             \/ current = MapPrototype /\ k \in MapPrototypeNames
        ELSE IF current.t = "array"
        THEN \/ k = "length"
             \/ /\ IsArrayIndex(k)
                /\ IndexBefore(k, ToString(Len(current.items)))
             \/ k \in ArrayPrototypeNames
             \/ k \in ObjectPrototypeNames
        ELSE IF current.t = "map"
        THEN k \in MapPrototypeNames \/ k \in ObjectPrototypeNames
        ELSE FALSE

\* current[safeKey], when safeKey in current; Thrown when the read throws
At(current, safeKey) ==
    LET k == String(safeKey)
    IN  IF ~IsTagged(current)
        THEN IF k \in DOMAIN current THEN current[k]
             ELSE InheritedValue(current, k)
        ELSE IF current.t = "object" THEN ObjGet(current, k)
        ELSE IF current.t # "array" THEN InheritedValue(current, k)
        ELSE IF k = "length" THEN Num(ToString(Len(current.items)))
        ELSE IF /\ IsArrayIndex(k)
                /\ IndexBefore(k, ToString(Len(current.items)))
        THEN current.items[IndexHigh(k) * 100000 + IndexLow(k) + 1]
        ELSE InheritedValue(current, k)

\* the walk: current after the first n keys of the path, the marker
\* Returned when the loop has returned [] by then, or Thrown when a read of
\* current[safeKey] has thrown by then
Returned == [t |-> "returned"]
RECURSIVE getFromNestedGroups_current(_, _, _)
getFromNestedGroups_current(nestedGroups, path, n) ==
    IF n = 0 THEN nestedGroups
    ELSE LET current == getFromNestedGroups_current(nestedGroups, path, n - 1)
             safeKey == path[n]
         IN  IF current \in {Returned, Thrown} THEN current
             ELSE IF /\ ~IsNullish(current)
                     /\ IsObjectLike(current)
                     /\ safeKey # Null
                     /\ safeKey # Undefined
                     /\ In(safeKey, current)
                  THEN At(current, safeKey)
                  ELSE Returned

getFromNestedGroups(nestedGroups, path) ==
    IF Len(path) = 0
    THEN IF IsArray(nestedGroups) THEN nestedGroups ELSE Arr(<<>>)
    ELSE LET current == getFromNestedGroups_current(nestedGroups, path, Len(path))
         IN  IF current = Thrown THEN Thrown
             ELSE IF current = Returned THEN Arr(<<>>)
             ELSE IF IsArray(current) THEN current ELSE Arr(<<>>)

(***************************************************************************)
(* attachChildrenNested, attachChildNested: the nested strategy.           *)
(***************************************************************************)
attachChildrenNested(params) ==
    LET nestedGroups == createNestedGroups(params.children, params.childKeys)
    IN  IF nestedGroups = Thrown THEN Thrown
        ELSE
        Arr([i \in 1..Len(params.parents) |->
            LET parent == params.parents[i]
                path == [j \in 1..Len(params.parentKeys) |->
                            Get(parent, params.parentKeys[j])]
                matchingChildren == getFromNestedGroups(nestedGroups, path)
            IN  Spread(parent, params.as, matchingChildren)])

attachChildNested(params) ==
    LET nestedGroups == createNestedGroups(params.children, params.childKeys)
    IN  IF nestedGroups = Thrown THEN Thrown
        ELSE
        Arr([i \in 1..Len(params.parents) |->
            LET parent == params.parents[i]
                path == [j \in 1..Len(params.parentKeys) |->
                            Get(parent, params.parentKeys[j])]
                matchingChildren == getFromNestedGroups(nestedGroups, path)
                matchingChild == IF Len(matchingChildren.items) > 0
                                 THEN matchingChildren.items[1]
                                 ELSE Null
            IN  Spread(parent, params.as, matchingChild)])

(***************************************************************************)
(* attachChildrenWithFilter: parents -> shared middle catalog -> children  *)
(* filtered by the owning parent.                                          *)
(***************************************************************************)
\* a destructuring default: the default replaces undefined only
Default(v, d) == IF v = Undefined THEN d ELSE v

\* an index that keeps only the last child of a middle key
RECURSIVE attachChildrenWithFilter_childrenByMiddleKey_overwrite(_, _)
attachChildrenWithFilter_childrenByMiddleKey_overwrite(params, n) ==
    IF n = 0 THEN NewMap
    ELSE LET child == params.children[n]
         IN  MapSet(attachChildrenWithFilter_childrenByMiddleKey_overwrite(
                        params, n - 1),
                    Get(child, params.childKey), Arr(<<child>>))

RECURSIVE attachChildrenWithFilter_childrenByMiddleKey(_, _)
attachChildrenWithFilter_childrenByMiddleKey(params, n) ==
    IF n = 0 THEN NewMap
    ELSE LET map == attachChildrenWithFilter_childrenByMiddleKey(params, n - 1)
             child == params.children[n]
             key == Get(child, params.childKey)
             existing == MapGet(map, key)
         IN  IF ~IsNullish(existing)
             THEN MapSet(map, key, Push(existing, child))
             ELSE MapSet(map, key, Arr(<<child>>))

\* a variant that resolves "one" before the ownership filter: the first child
\* of the middle key, kept only if it belongs to the parent
attachChildrenWithFilter_mid_firstOfKey(params, childrenByMiddleKey, parent, mid) ==
    LET childCardinality == Default(params.childCardinality, Str("many"))
        parentKeyValue == Get(parent, params.parentKey)
        allChildrenForMiddle ==
            Coalesce(MapGet(childrenByMiddleKey, Get(mid, params.middleKey)),
                     Arr(<<>>))
        matchingChildren ==
            Arr(SelectSeq(allChildrenForMiddle.items, LAMBDA child :
                    Get(child, params.childParentKey) = parentKeyValue))
        first == First(allChildrenForMiddle)
        childValue == IF childCardinality = Str("one")
                      THEN IF first # Undefined
                              /\ Get(first, params.childParentKey) = parentKeyValue
                           THEN first ELSE Undefined
                      ELSE matchingChildren
    IN  Spread(mid, params.childAs, childValue)

\* a variant without the ownership filter
attachChildrenWithFilter_mid_unfiltered(params, childrenByMiddleKey, parent, mid) ==
    LET childCardinality == Default(params.childCardinality, Str("many"))
        allChildrenForMiddle ==
            Coalesce(MapGet(childrenByMiddleKey, Get(mid, params.middleKey)),
                     Arr(<<>>))
        childValue == IF childCardinality = Str("one")
                      THEN Coalesce(First(allChildrenForMiddle), Undefined)
                      ELSE allChildrenForMiddle
    IN  Spread(mid, params.childAs, childValue)

\* the enriched middle record the inner callback returns for parent and mid
attachChildrenWithFilter_mid(params, childrenByMiddleKey, parent, mid) ==
    LET childCardinality == Default(params.childCardinality, Str("many"))
        parentKeyValue == Get(parent, params.parentKey)
        midKeyValue == Get(mid, params.middleKey)
        allChildrenForMiddle ==
            Coalesce(MapGet(childrenByMiddleKey, midKeyValue), Arr(<<>>))
        matchingChildren ==
            Arr(SelectSeq(allChildrenForMiddle.items, LAMBDA child :
                    StrictEquals(Get(child, params.childParentKey),
                                 parentKeyValue)))
        childValue == IF childCardinality = Str("one")
                      THEN Coalesce(First(matchingChildren), Undefined)
                      ELSE matchingChildren
    IN  Spread(mid, params.childAs, childValue)

\* a variant that keeps, for each parent, only the middle records that have a
\* child (the catalog filtered per parent)
attachChildrenWithFilter_filteredCatalog(params) ==
    LET middleCardinality == Default(params.middleCardinality, Str("many"))
        childCardinality == Default(params.childCardinality, Str("many"))
        childrenByMiddleKey ==
            attachChildrenWithFilter_childrenByMiddleKey(params,
                                                         Len(params.children))
    IN  Arr([i \in 1..Len(params.parents) |->
            LET parent == params.parents[i]
                all == [j \in 1..Len(params.middle) |->
                           attachChildrenWithFilter_mid(params, childrenByMiddleKey,
                                                        parent, params.middle[j])]
                middleWithChildren ==
                    Arr(SelectSeq(all, LAMBDA mid :
                            mid[params.childAs] \notin {Undefined, Arr(<<>>)}))
                middleValue == IF middleCardinality = Str("one")
                               THEN Coalesce(First(middleWithChildren), Undefined)
                               ELSE middleWithChildren
            IN  Spread(parent, params.middleAs, middleValue)])

\* a variant whose "one" takes the last enriched middle record
attachChildrenWithFilter_lastMiddle(params) ==
    LET middleCardinality == Default(params.middleCardinality, Str("many"))
        childrenByMiddleKey ==
            attachChildrenWithFilter_childrenByMiddleKey(params,
                                                         Len(params.children))
    IN  Arr([i \in 1..Len(params.parents) |->
            LET parent == params.parents[i]
                middleWithChildren ==
                    Arr([j \in 1..Len(params.middle) |->
                        attachChildrenWithFilter_mid(params, childrenByMiddleKey,
                                                     parent, params.middle[j])])
                middleValue ==
                    IF middleCardinality = Str("one")
                    THEN IF Len(middleWithChildren.items) > 0
                         THEN middleWithChildren.items[Len(middleWithChildren.items)]
                         ELSE Undefined
                    ELSE middleWithChildren
            IN  Spread(parent, params.middleAs, middleValue)])

attachChildrenWithFilter(params) ==
    LET middleCardinality == Default(params.middleCardinality, Str("many"))
        childrenByMiddleKey ==
            attachChildrenWithFilter_childrenByMiddleKey(params,
                                                         Len(params.children))
    IN  Arr([i \in 1..Len(params.parents) |->
            LET parent == params.parents[i]
                middleWithChildren ==
                    Arr([j \in 1..Len(params.middle) |->
                        attachChildrenWithFilter_mid(params, childrenByMiddleKey,
                                                     parent, params.middle[j])])
                middleValue == IF middleCardinality = Str("one")
                               THEN Coalesce(First(middleWithChildren), Undefined)
                               ELSE middleWithChildren
            IN  Spread(parent, params.middleAs, middleValue)])

(***************************************************************************)
(* Which array object a one-to-many join attaches.  Values do not tell two *)
(* equal arrays apart, so an array object is named by the expression that  *)
(* created it: the array the index holds for a key (created by [child] or  *)
(* by result[groupKey] = [] when the key is first seen), the literal []    *)
(* evaluated for one parent, or the children array the caller passed.      *)
(***************************************************************************)
IndexArray(key) == [site |-> "index", key |-> key]
FreshArray(i) == [site |-> "literal", parent |-> i]
InputArray == [site |-> "children"]

\* childrenByKey.get(parentKeyValue) ?? [] for the i-th parent
attachChildren_matchingChildren(params, i) ==
    LET childrenByKey ==
            attachChildren_childrenByKey(params, Len(params.children))
        parentKeyValue == Get(params.parents[i], params.parentKey)
    IN  IF ~IsNullish(MapGet(childrenByKey, parentKeyValue))
        THEN IndexArray(parentKeyValue)
        ELSE FreshArray(i)

joinBySelectors_matchingChildren(params, i) ==
    LET childrenByKey ==
            joinBySelectors_childrenByKey(params, Len(params.children))
        key == Select(params.parentSelector, params.parents[i])
    IN  IF ~IsNullish(MapGet(childrenByKey, key))
        THEN IndexArray(key)
        ELSE FreshArray(i)

attachChildrenComposite_matchingChildren(params, i) ==
    LET childrenByKey ==
            attachChildrenComposite_childrenByKey(params, Len(params.children))
        parentKey == makeCompositeKeyExtractor(params.parentKeys,
                                               params.parents[i])
    IN  IF ~IsNullish(MapGet(childrenByKey, parentKey))
        THEN IndexArray(parentKey)
        ELSE FreshArray(i)

\* getFromNestedGroups(nestedGroups, path) for the i-th parent: the tree
\* itself for an empty path, the array the walk ends on, or a literal [].
\* The walk ends on the leaf at its path, or, led there by __proto__, on
\* Array.prototype, the one object every such path reaches.
attachChildrenNested_matchingChildren(params, i) ==
    LET nestedGroups == createNestedGroups(params.children, params.childKeys)
        path == [j \in 1..Len(params.parentKeys) |->
                    Get(params.parents[i], params.parentKeys[j])]
        current == getFromNestedGroups_current(nestedGroups, path, Len(path))
    IN  IF Len(path) = 0
        THEN IF IsArray(nestedGroups)
             THEN IF Len(params.childKeys) = 0 THEN InputArray
                  ELSE IndexArray(<<>>)
             ELSE FreshArray(i)
        ELSE IF current = ArrayPrototype THEN [site |-> "Array.prototype"]
        ELSE IF current # Returned /\ IsArray(current)
        THEN IndexArray([j \in 1..Len(path) |-> String(path[j])])
        ELSE FreshArray(i)

(***************************************************************************)
(* The earlier attachChildrenWithFilter, which has no cardinalities: both  *)
(* relations are attached as arrays.                                       *)
(***************************************************************************)
RECURSIVE attachChildrenWithFilter_withoutCardinality_childrenByMiddleKey(_, _)
attachChildrenWithFilter_withoutCardinality_childrenByMiddleKey(params, n) ==
    IF n = 0 THEN NewMap
    ELSE LET map ==
                 attachChildrenWithFilter_withoutCardinality_childrenByMiddleKey(
                     params, n - 1)
             child == params.children[n]
             key == Get(child, params.childKey)
             existing == MapGet(map, key)
         IN  IF ~IsNullish(existing)
             THEN MapSet(map, key, Push(existing, child))
             ELSE MapSet(map, key, Arr(<<child>>))

attachChildrenWithFilter_withoutCardinality(params) ==
    LET childrenByMiddleKey ==
            attachChildrenWithFilter_withoutCardinality_childrenByMiddleKey(
                params, Len(params.children))
    IN  Arr([i \in 1..Len(params.parents) |->
            LET parent == params.parents[i]
                parentKeyValue == Get(parent, params.parentKey)
                middleWithChildren ==
                    Arr([j \in 1..Len(params.middle) |->
                        LET mid == params.middle[j]
                            midKeyValue == Get(mid, params.middleKey)
                            allChildrenForMiddle ==
                                Coalesce(MapGet(childrenByMiddleKey, midKeyValue),
                                         Arr(<<>>))
                            matchingChildren ==
                                Arr(SelectSeq(allChildrenForMiddle.items,
                                    LAMBDA child :
                                        StrictEquals(
                                            Get(child, params.childParentKey),
                                            parentKeyValue)))
                        IN  Spread(mid, params.childAs, matchingChildren)])
            IN  Spread(parent, params.middleAs, middleWithChildren)])

(***************************************************************************)
(* Grouping.  A key selector of the model is the projection of one field,  *)
(* item => item[field], or the extractor of a composite key.               *)
(***************************************************************************)
\* keySelector(item)
KeyOf(keySelector, item) ==
    IF "field" \in DOMAIN keySelector
    THEN Get(item, keySelector.field)
    ELSE makeCompositeKeyExtractor(keySelector.keys, item)

\* a loop that puts each item at the head of its group
RECURSIVE groupBy_result_unshift(_, _, _)
groupBy_result_unshift(xs, keySelector, n) ==
    IF n = 0 THEN NewObject
    ELSE LET result0 == groupBy_result_unshift(xs, keySelector, n - 1)
             item == xs[n]
             key == String(KeyOf(keySelector, item))
             group == Coalesce(ObjGet(result0, key), Arr(<<>>))
         IN  IF result0 = Thrown \/ ~IsArray(group) THEN Thrown
             ELSE ObjSet(result0, key, Arr(<<item>> \o group.items))

\* groupBy: result after the first n items
RECURSIVE groupBy_result(_, _, _)
groupBy_result(xs, keySelector, n) ==
    IF n = 0 THEN NewObject
    ELSE LET result0 == groupBy_result(xs, keySelector, n - 1)
             item == xs[n]
             key == String(KeyOf(keySelector, item))
             result1 == IF IsNullish(ObjGet(result0, key))
                        THEN ObjSet(result0, key, Arr(<<>>))
                        ELSE result0
         IN  IF result0 = Thrown THEN Thrown
             ELSE PushAt(result1, key, item)

groupBy(xs, keySelector) == groupBy_result(xs, keySelector, Len(xs))

\* a loop that puts each item at the head of its group
RECURSIVE groupByKey_result_unshift(_, _, _)
groupByKey_result_unshift(xs, key, n) ==
    IF n = 0 THEN NewObject
    ELSE LET result0 == groupByKey_result_unshift(xs, key, n - 1)
             item == xs[n]
             groupKey == String(Get(item, key))
             group == Coalesce(ObjGet(result0, groupKey), Arr(<<>>))
         IN  IF result0 = Thrown \/ ~IsArray(group) THEN Thrown
             ELSE ObjSet(result0, groupKey, Arr(<<item>> \o group.items))

\* groupByKey: result after the first n items
RECURSIVE groupByKey_result(_, _, _)
groupByKey_result(xs, key, n) ==
    IF n = 0 THEN NewObject
    ELSE LET result0 == groupByKey_result(xs, key, n - 1)
             item == xs[n]
             groupKey == String(Get(item, key))
             result1 == IF IsNullish(ObjGet(result0, groupKey))
                        THEN ObjSet(result0, groupKey, Arr(<<>>))
                        ELSE result0
         IN  IF result0 = Thrown THEN Thrown
             ELSE PushAt(result1, groupKey, item)

groupByKey(xs, key) == groupByKey_result(xs, key, Len(xs))

RECURSIVE groupByMany(_, _)
RECURSIVE groupByMany_entries(_, _, _)
\* the loop over Object.entries(firstLevelGroups): result after n entries
groupByMany_entries(firstLevelGroups, restKeys, n) ==
    IF n = 0 THEN NewObject
    ELSE LET groupKey == firstLevelGroups.keys[n]
             groupItems == firstLevelGroups.m[groupKey]
             result0 == groupByMany_entries(firstLevelGroups, restKeys, n - 1)
             nested == groupByMany(groupItems.items, restKeys)
         IN  IF result0 = Thrown \/ nested = Thrown THEN Thrown
             ELSE ObjSet(result0, groupKey, nested)

groupByMany(xs, keys) ==
    IF Len(keys) = 0 THEN Arr(xs)
    ELSE IF Len(keys) = 1 THEN groupByKey(xs, keys[1])
    ELSE LET firstLevelGroups == groupByKey(xs, keys[1])
         IN  IF firstLevelGroups = Thrown THEN Thrown
             ELSE groupByMany_entries(firstLevelGroups, Tail(keys),
                                      Len(firstLevelGroups.keys))

\* valueTransform(group), for the transforms of the model: the number of
\* records of the group, its first record, or the group itself
ValueOf(valueTransform, group) ==
    IF valueTransform = "count" THEN Num(ToString(Len(group.items)))
    ELSE IF valueTransform = "first" THEN First(group)
    ELSE group

\* groupByTransform: after the first n entries of grouped, the result and
\* the arguments valueTransform was invoked with so far
RECURSIVE groupByTransform_loop(_, _, _)
groupByTransform_loop(grouped, valueTransform, n) ==
    IF n = 0 THEN [result |-> NewObject, calls |-> <<>>]
    ELSE LET before == groupByTransform_loop(grouped, valueTransform, n - 1)
             key == grouped.keys[n]
             group == grouped.m[key]
         IN  [result |-> ObjSet(before.result, key,
                                ValueOf(valueTransform, group)),
              calls |-> Append(before.calls, group)]

groupByTransform(xs, keySelector, valueTransform) ==
    LET grouped == groupBy(xs, keySelector)
    IN  IF grouped = Thrown THEN Thrown
        ELSE groupByTransform_loop(grouped, valueTransform,
                                   Len(grouped.keys)).result

\* the groups valueTransform is invoked with during that call, in order
groupByTransform_calls(xs, keySelector, valueTransform) ==
    LET grouped == groupBy(xs, keySelector)
    IN  IF grouped = Thrown THEN <<>>
        ELSE groupByTransform_loop(grouped, valueTransform,
                                   Len(grouped.keys)).calls

groupByComposite(xs, keys) == groupBy(xs, [keys |-> keys])

(***************************************************************************)
(* The inputs.  Records have the key fields a and b; a child also has n,   *)
(* its position in the children array, which tells equal children apart.   *)
(* and a middle record has the key field b and its position n.             *)
(* Four families of inputs: joins without a catalog, whose key values mix  *)
(* numbers, strings and null; joins without a catalog, whose key values    *)
(* are converted to a property name of Object.prototype or to an array     *)
(* index of two digits; joins with a middle catalog, whose key values are  *)
(* numbers; and joins whose key values are objects or NaN.                 *)
(***************************************************************************)
SeqsUpTo(S, n) == UNION {[1..k -> S] : k \in 0..n}

MixedKeys == {Num("1"), Str("1"), Null}
NumberKeys == {Num("1"), Num("2")}
\* key values whose property strings are a name Object.prototype defines
\* and an array index of two digits
NamedKeys == {Str("constructor"), Num("10")}
\* a key value that is an object: the array [1] with the identity n
KeyObject(n) == [t |-> "array", items |-> <<Num("1")>>, identity |-> n]
\* two arrays of the same content that are two objects, and NaN, which a
\* Map finds under NaN and === tells apart from itself
ObjectKeys == {KeyObject(1), KeyObject(2), Num("NaN")}

Numbered(s) == [i \in DOMAIN s |-> [a |-> s[i].a, b |-> s[i].b,
                                    n |-> Num(ToString(i))]]

\* the parents arrays of at most n records with a in A and b = 1
Parents(A, n) == SeqsUpTo([a : A, b : {Num("1")}], n)
\* the children (or items) arrays of at most n records with a in A, b in B
Records(A, B, n) == {Numbered(s) : s \in SeqsUpTo([a : A, b : B], n)}
\* the middle arrays of at most n records with b in B
Middles(B, n) ==
    {[i \in DOMAIN s |-> [b |-> s[i].b, n |-> Num(ToString(i))]] :
        s \in SeqsUpTo([b : B], n)}

\* the names given to the attached fields: new names, or the name of a field
\* the records already have
AsNames == {"out", "b"}
AsPairs == {<<"out", "items">>, <<"b", "b">>}
KeyTuples == {<<"a">>, <<"a", "b">>}
\* the values of mode and of a cardinality: "many", "one", or omitted
Cardinalities == {Str("many"), Str("one"), Undefined}

Init ==
    /\ \/ /\ parents \in Parents(MixedKeys, MaxParents)
          /\ children \in Records(MixedKeys, NumberKeys, MaxChildren)
          /\ middle = <<>>
       \/ /\ parents \in Parents(NamedKeys, MaxParents)
          /\ children \in Records(NamedKeys, {Num("1")}, MaxChildren)
          /\ middle = <<>>
       \/ /\ parents \in Parents(NumberKeys, MaxParents)
          /\ children \in Records(NumberKeys, NumberKeys, MaxChildren)
          /\ middle \in Middles(NumberKeys, MaxMiddle)
       \/ /\ parents \in Parents(ObjectKeys, MaxParents)
          /\ children \in Records(ObjectKeys, {KeyObject(1), Num("NaN")},
                                  MaxChildren)
          /\ middle \in Middles(ObjectKeys, 1)
    /\ inputItems = <<>>
    /\ op = "none"
    /\ args = <<>>
    /\ result = Undefined
    /\ calls = <<>>
    /\ RunIdle

Inputs == <<parents, children, middle, inputItems>>

(***************************************************************************)
(* One action per exported join.  The operators are pure and keep nothing  *)
(* between calls, so a behaviour is one call on the inputs Init chose: op  *)
(* names the operator called, args its parameters, result what it returned.*)
(***************************************************************************)

CallAttachChildren ==
    /\ op = "none"
    /\ \E as \in AsNames :
           LET params == [parents |-> parents, children |-> children,
                          parentKey |-> "a", childKey |-> "a", as |-> as]
           IN  /\ op' = "attachChildren"
               /\ args' = params
               /\ result' = attachChildren(params)
               /\ calls' = <<>>
               /\ UNCHANGED <<Inputs, Run>>

CallAttachChild ==
    /\ op = "none"
    /\ \E as \in AsNames :
           LET params == [parents |-> parents, children |-> children,
                          parentKey |-> "a", childKey |-> "a", as |-> as]
           IN  /\ op' = "attachChild"
               /\ args' = params
               /\ result' = attachChild(params)
               /\ calls' = <<>>
               /\ UNCHANGED <<Inputs, Run>>

\* the selectors return a PropertyKey (K extends PropertyKey): no object
CallJoinBySelectors ==
    /\ op = "none"
    /\ \A i \in 1..Len(parents) : IsScalar(parents[i].a)
    /\ \A j \in 1..Len(children) : IsScalar(children[j].a)
    /\ \E as \in AsNames, mode \in Cardinalities :
           LET params == [parents |-> parents, children |-> children,
                          parentSelector |-> [field |-> "a"],
                          childSelector |-> [field |-> "a"],
                          as |-> as, mode |-> mode]
           IN  /\ op' = "joinBySelectors"
               /\ args' = params
               /\ result' = joinBySelectors(params)
               /\ calls' = <<>>
               /\ UNCHANGED <<Inputs, Run>>

CallAttachChildrenComposite ==
    /\ op = "none"
    /\ \E as \in AsNames, keys \in KeyTuples :
           LET params == [parents |-> parents, children |-> children,
                          parentKeys |-> keys, childKeys |-> keys, as |-> as]
           IN  /\ op' = "attachChildrenComposite"
               /\ args' = params
               /\ result' = attachChildrenComposite(params)
               /\ calls' = <<>>
               /\ UNCHANGED <<Inputs, Run>>

CallAttachChildComposite ==
    /\ op = "none"
    /\ \E as \in AsNames, keys \in KeyTuples :
           LET params == [parents |-> parents, children |-> children,
                          parentKeys |-> keys, childKeys |-> keys, as |-> as]
           IN  /\ op' = "attachChildComposite"
               /\ args' = params
               /\ result' = attachChildComposite(params)
               /\ calls' = <<>>
               /\ UNCHANGED <<Inputs, Run>>

CallAttachChildrenNested ==
    /\ op = "none"
    /\ \E as \in AsNames, keys \in KeyTuples :
           LET params == [parents |-> parents, children |-> children,
                          parentKeys |-> keys, childKeys |-> keys, as |-> as]
           IN  /\ op' = "attachChildrenNested"
               /\ args' = params
               /\ result' = attachChildrenNested(params)
               /\ calls' = <<>>
               /\ UNCHANGED <<Inputs, Run>>

CallAttachChildNested ==
    /\ op = "none"
    /\ \E as \in AsNames, keys \in KeyTuples :
           LET params == [parents |-> parents, children |-> children,
                          parentKeys |-> keys, childKeys |-> keys, as |-> as]
           IN  /\ op' = "attachChildNested"
               /\ args' = params
               /\ result' = attachChildNested(params)
               /\ calls' = <<>>
               /\ UNCHANGED <<Inputs, Run>>

CallAttachChildrenWithFilter ==
    /\ op = "none"
    /\ \E as \in AsPairs,
          middleCardinality \in Cardinalities, childCardinality \in Cardinalities :
           LET params == [parents |-> parents, middle |-> middle,
                          children |-> children,
                          parentKey |-> "a", childParentKey |-> "a",
                          middleKey |-> "b", childKey |-> "b",
                          middleAs |-> as[1], childAs |-> as[2],
                          middleCardinality |-> middleCardinality,
                          childCardinality |-> childCardinality]
           IN  /\ op' = "attachChildrenWithFilter"
               /\ args' = params
               /\ result' = attachChildrenWithFilter(params)
               /\ calls' = <<>>
               /\ UNCHANGED <<Inputs, Run>>

Next ==
    \/ CallAttachChildren
    \/ CallAttachChild
    \/ CallJoinBySelectors
    \/ CallAttachChildrenComposite
    \/ CallAttachChildComposite
    \/ CallAttachChildrenNested
    \/ CallAttachChildNested
    \/ CallAttachChildrenWithFilter

Spec == Init /\ [][Next]_vars

(***************************************************************************)
(* The grouping operators have a specification of their own: its inputs    *)
(* are the items, records with the key fields a and b and their position   *)
(* n.  The values of a mix numbers, strings (the texts of null and of      *)
(* undefined among them) and null, in any order, so that keys are first    *)
(* seen in an order that is not the ascending one.                         *)
(***************************************************************************)
GroupKeys ==
    {Num("1"), Num("2"), Str("1"), Str("x"), Null, Str("null"),
     Str("undefined")}
\* items whose key values are converted to a property name of
\* Object.prototype, or to array indices of one and of two digits
NamedItems == Records(NamedKeys \cup {Num("2")}, {Num("1")}, MaxItems)

KeySelectors == {[field |-> "a"], [field |-> "b"]}
GroupKeyTuples == {<<>>, <<"a">>, <<"a", "b">>, <<"b", "a">>}

InitGroup ==
    /\ parents = <<>>
    /\ children = <<>>
    /\ middle = <<>>
    /\ inputItems \in Records(GroupKeys, NumberKeys, MaxItems) \cup NamedItems
    /\ op = "none"
    /\ args = <<>>
    /\ result = Undefined
    /\ calls = <<>>
    /\ RunIdle

CallGroupBy ==
    /\ op = "none"
    /\ \E keySelector \in KeySelectors :
           /\ op' = "groupBy"
           /\ args' = [items |-> inputItems, keySelector |-> keySelector]
           /\ result' = groupBy(inputItems, keySelector)
           /\ calls' = <<>>
           /\ UNCHANGED <<Inputs, Run>>

CallGroupByKey ==
    /\ op = "none"
    /\ \E key \in {"a", "b"} :
           /\ op' = "groupByKey"
           /\ args' = [items |-> inputItems, key |-> key]
           /\ result' = groupByKey(inputItems, key)
           /\ calls' = <<>>
           /\ UNCHANGED <<Inputs, Run>>

CallGroupByMany ==
    /\ op = "none"
    /\ \E keys \in GroupKeyTuples :
           /\ op' = "groupByMany"
           /\ args' = [items |-> inputItems, keys |-> keys]
           /\ result' = groupByMany(inputItems, keys)
           /\ calls' = <<>>
           /\ UNCHANGED <<Inputs, Run>>

CallGroupByTransform ==
    /\ op = "none"
    /\ \E keySelector \in KeySelectors,
          valueTransform \in {"count", "first", "group"} :
           /\ op' = "groupByTransform"
           /\ args' = [items |-> inputItems, keySelector |-> keySelector,
                       valueTransform |-> valueTransform]
           /\ result' = groupByTransform(inputItems, keySelector, valueTransform)
           /\ calls' = groupByTransform_calls(inputItems, keySelector,
                                              valueTransform)
           /\ UNCHANGED <<Inputs, Run>>

CallGroupByComposite ==
    /\ op = "none"
    /\ \E keys \in KeyTuples :
           /\ op' = "groupByComposite"
           /\ args' = [items |-> inputItems, keys |-> keys]
           /\ result' = groupByComposite(inputItems, keys)
           /\ calls' = <<>>
           /\ UNCHANGED <<Inputs, Run>>

NextGroup ==
    \/ CallGroupBy
    \/ CallGroupByKey
    \/ CallGroupByMany
    \/ CallGroupByTransform
    \/ CallGroupByComposite

SpecGroup == InitGroup /\ [][NextGroup]_vars

(***************************************************************************)
(* The exported utilities, called directly: the nested index is built over *)
(* records that also carry tags, an array of their own, and is read along  *)
(* paths of any length.                                                    *)
(***************************************************************************)
MaxPath == 3

Tagged(s) == [i \in DOMAIN s |-> [a |-> s[i].a, b |-> s[i].b,
                                  n |-> Num(ToString(i)),
                                  tags |-> Arr(<<Num(ToString(i))>>)]]
IndexItems ==
    {Tagged(s) : s \in SeqsUpTo([a : {Num("1"), Str("x"), Null},
                                 b : NumberKeys], MaxItems)}
IndexKeyTuples == {<<>>, <<"a">>, <<"a", "b">>}
PathElements ==
    {Num("1"), Str("x"), Null, Num("0"), Str("tags"), Str("__proto__"),
     Str("findLast")}
InitIndex ==
    /\ parents = <<>>
    /\ children = <<>>
    /\ middle = <<>>
    /\ inputItems \in IndexItems
    /\ op = "none"
    /\ args = <<>>
    /\ result = Undefined
    /\ calls = <<>>
    /\ RunIdle

CallCreateNestedGroups ==
    /\ op = "none"
    /\ \E keys \in IndexKeyTuples :
           /\ op' = "createNestedGroups"
           /\ args' = [items |-> inputItems, keys |-> keys]
           /\ result' = createNestedGroups(inputItems, keys)
           /\ calls' = <<>>
           /\ UNCHANGED <<Inputs, Run>>

\* a lookup in the index createNestedGroups has built over the items
CallGetFromNestedGroups ==
    /\ op = "none"
    /\ \E keys \in IndexKeyTuples, path \in SeqsUpTo(PathElements, MaxPath) :
           LET nestedGroups == createNestedGroups(inputItems, keys)
           IN  /\ op' = "getFromNestedGroups"
               /\ args' = [nestedGroups |-> nestedGroups, path |-> path,
                           keys |-> keys]
               /\ result' = getFromNestedGroups(nestedGroups, path)
               /\ calls' = <<>>
               /\ UNCHANGED <<Inputs, Run>>

NextIndex ==
    \/ CallCreateNestedGroups
    \/ CallGetFromNestedGroups

SpecIndex == InitIndex /\ [][NextIndex]_vars

(***************************************************************************)
(* createCompositeKey, called directly on tuples of values of every kind:  *)
(* numbers, strings (the empty one, one that contains the separator, one   *)
(* that ends with the beginning of the separator and one that begins with  *)
(* its end among them), null and undefined, Map.prototype and two built-in *)
(* functions.                                                              *)
(***************************************************************************)
MaxValues == 3

KeyValues ==
    {Num("1"), Str("1"), Str("x"), Str(""), Null, Undefined,
     Str("x" \o Separator \o "x"), Str("x||~~"), Str("~~||y"), Str("y"),
     MapPrototype, InheritedValue(NewObject, "constructor"),
     InheritedValue(Arr(<<>>), "push")}
ValueTuples == SeqsUpTo(KeyValues, MaxValues)

InitKey ==
    /\ parents = <<>>
    /\ children = <<>>
    /\ middle = <<>>
    /\ inputItems = <<>>
    /\ op = "none"
    /\ args = <<>>
    /\ result = Undefined
    /\ calls = <<>>
    /\ RunIdle

CallCreateCompositeKey ==
    /\ op = "none"
    /\ \E values \in ValueTuples :
           /\ op' = "createCompositeKey"
           /\ args' = [values |-> values]
           /\ result' = createCompositeKey(values)
           /\ calls' = <<>>
           /\ UNCHANGED <<Inputs, Run>>

NextKey == CallCreateCompositeKey

SpecKey == InitKey /\ [][NextKey]_vars

(***************************************************************************)
(* groupByComposite on records whose key fields hold any value a composite *)
(* key renders: strings, among them one that contains the separator, two   *)
(* that overlap it and the name of a property of Object.prototype,         *)
(* numbers, null and undefined.                                            *)
(***************************************************************************)
CompositeItems ==
    Records({Str("x"), Str("x" \o Separator \o "x"), Str("x||~~"),
             Str("constructor"), Null, Undefined},
            {Str("x"), Str("x" \o Separator \o "x"), Str("~~||y"),
             Str("y"), Num("1")},
            MaxItems)

InitComposite ==
    /\ parents = <<>>
    /\ children = <<>>
    /\ middle = <<>>
    /\ inputItems \in CompositeItems
    /\ op = "none"
    /\ args = <<>>
    /\ result = Undefined
    /\ calls = <<>>
    /\ RunIdle

NextComposite == CallGroupByComposite

SpecComposite == InitComposite /\ [][NextComposite]_vars

(***************************************************************************)
(* The operators followed step by step: one step per iteration of an index *)
(* loop, per callback of an output pass and per call of a recursive        *)
(* grouping.  pc is the phase of the call, scanned the number of children  *)
(* (or items) the index loop has visited, index the index built from them, *)
(* emitted the number of parents (or entries) the output pass has visited, *)
(* pairs the number of parent-middle pairs visited, and stack the calls of *)
(* the recursion that have not returned, the running one first and the     *)
(* outermost one last.                                                     *)
(*                                                                         *)
(* The statements of the library that write are array.push(x),             *)
(* map.set(key, value) and object[key] = value.  The Map or the object is  *)
(* always the one the call created in a local constant (index, and groups  *)
(* and result of a call of the recursion).  The array of a push is the one *)
(* a reference read from the index denotes, so the arrays are kept by      *)
(* reference: heap is the sequence of the arrays the call can reach, a     *)
(* reference is the position of an array in it, and the index of a         *)
(* one-to-many join or of a grouping holds references.  The first four     *)
(* arrays of the heap are the ones the caller passes; the arrays the call  *)
(* creates follow in the order of their creation.  map, filter and the     *)
(* spread of the output pass read their operand and create a new object.   *)
(***************************************************************************)
\* The inputs: number keys; parents and children whose key is NaN, which a
\* Map finds under NaN and which === tells apart from itself; keys that are
\* two arrays of the same content; keys that are converted to a property
\* name of Object.prototype; and items to group.
InitRun ==
    /\ \/ /\ parents \in Parents(NumberKeys, MaxParents)
          /\ children \in Records(NumberKeys, {Num("1")}, MaxChildren)
          /\ middle \in Middles({Num("1")}, MaxMiddle)
          /\ inputItems = <<>>
       \/ /\ parents \in Parents({Num("NaN")}, MaxParents)
          /\ children \in Records({Num("NaN"), Num("1")}, {Num("1")},
                                  MaxChildren)
          /\ middle \in Middles({Num("1")}, 1) \ {<<>>}
          /\ inputItems = <<>>
       \/ /\ parents \in Parents({KeyObject(1), KeyObject(2)}, MaxParents)
          /\ children \in Records({KeyObject(1), KeyObject(2)}, {Num("1")},
                                  MaxChildren)
          /\ middle \in Middles({Num("1")}, 1) \ {<<>>}
          /\ inputItems = <<>>
       \/ /\ parents \in Parents(NamedKeys, MaxParents)
          /\ children \in Records(NamedKeys, {Num("1")}, MaxChildren)
          /\ middle = <<>>
          /\ inputItems = <<>>
       \/ /\ parents = <<>>
          /\ children = <<>>
          /\ middle = <<>>
          /\ inputItems \in Records(NumberKeys, NumberKeys, MaxItems)
                                \cup NamedItems
    /\ op = "none"
    /\ args = <<>>
    /\ result = Undefined
    /\ calls = <<>>
    /\ RunIdle

\* the operators that build a Map index of the children in one loop
IndexJoins == {"attachChildren", "attachChild", "joinBySelectors",
               "attachChildrenComposite", "attachChildComposite",
               "attachChildrenWithFilter"}
\* the joins that index the children with createNestedGroups
NestedJoins == {"attachChildrenNested", "attachChildNested"}
\* the groupings that build their result in one loop over the items
LoopGroupings == {"groupBy", "groupByKey", "groupByTransform",
                  "groupByComposite"}
\* the groupings that call themselves on every first-level group
RecursiveGroupings == {"groupByMany", "createNestedGroups"}

\* a reference to the n-th array of the heap
Ref(n) == [t |-> "ref", n |-> n]

\* the array a reference denotes, as a value; a value that is no reference
\* is itself
Deref(v, cells) ==
    IF IsTagged(v) /\ v.t = "ref" THEN Arr(cells[v.n]) ELSE v

\* a Map or an object whose references are replaced by the arrays they
\* denote
WithArrays(idx, cells) ==
    IF idx.t = "map"
    THEN [idx EXCEPT !.entries =
             [i \in DOMAIN idx.entries |->
                 [key |-> idx.entries[i].key,
                  value |-> Deref(idx.entries[i].value, cells)]]]
    ELSE IF idx.t = "object"
    THEN [idx EXCEPT !.m = [k \in DOMAIN idx.m |-> Deref(idx.m[k], cells)]]
    ELSE idx

\* target.push(x): the array the reference denotes gets one more element
PushTo(cells, target, x) == [cells EXCEPT ![target.n] = Append(@, x)]

\* a call of the recursion: the items and keys it is given, its level (the
\* outermost call is at level 1), its loop (the items visited and their
\* groups), and, for a call with two keys or more, its local result and the
\* number of groups whose entry has been assigned to it
Frame(items, keys, level) ==
    [items |-> items, keys |-> keys, level |-> level,
     groups |-> NewObject, visited |-> 0,
     result |-> NewObject, assigned |-> 0]

\* the call of an operator: its parameters are destructured and the index
\* is created empty
Begin(name, params) ==
    /\ op = "none"
    /\ pc = "idle"
    /\ op' = name
    /\ args' = params
    /\ pc' = IF name \in IndexJoins \cup LoopGroupings THEN "index"
             ELSE "recurse"
    /\ scanned' = 0
    /\ index' = IF name \in IndexJoins THEN NewMap ELSE NewObject
    /\ emitted' = 0
    /\ pairs' = 0
    /\ mids' = <<>>
    /\ stack' = IF name \in NestedJoins
                THEN <<Frame(params.children, params.childKeys, 1)>>
                ELSE IF name \in RecursiveGroupings
                THEN <<Frame(params.items, params.keys, 1)>>
                ELSE <<>>
    /\ heap' = <<parents, children, middle, inputItems>>
    /\ UNCHANGED <<Inputs, result, calls>>

BeginAttachChildren ==
    Begin("attachChildren",
          [parents |-> parents, children |-> children,
           parentKey |-> "a", childKey |-> "a", as |-> "out"])

BeginAttachChild ==
    Begin("attachChild",
          [parents |-> parents, children |-> children,
           parentKey |-> "a", childKey |-> "a", as |-> "out"])

\* the selectors return a PropertyKey (K extends PropertyKey): no object
BeginJoinBySelectors ==
    /\ \A i \in 1..Len(parents) : IsScalar(parents[i].a)
    /\ \A j \in 1..Len(children) : IsScalar(children[j].a)
    /\ \E mode \in Cardinalities :
        Begin("joinBySelectors",
              [parents |-> parents, children |-> children,
               parentSelector |-> [field |-> "a"],
               childSelector |-> [field |-> "a"],
               as |-> "out", mode |-> mode])

BeginAttachChildrenComposite ==
    \E keys \in KeyTuples :
        Begin("attachChildrenComposite",
              [parents |-> parents, children |-> children,
               parentKeys |-> keys, childKeys |-> keys, as |-> "out"])

BeginAttachChildComposite ==
    \E keys \in KeyTuples :
        Begin("attachChildComposite",
              [parents |-> parents, children |-> children,
               parentKeys |-> keys, childKeys |-> keys, as |-> "out"])

BeginAttachChildrenNested ==
    \E keys \in KeyTuples :
        Begin("attachChildrenNested",
              [parents |-> parents, children |-> children,
               parentKeys |-> keys, childKeys |-> keys, as |-> "out"])

BeginAttachChildNested ==
    \E keys \in KeyTuples :
        Begin("attachChildNested",
              [parents |-> parents, children |-> children,
               parentKeys |-> keys, childKeys |-> keys, as |-> "out"])

BeginAttachChildrenWithFilter ==
    \E childCardinality \in Cardinalities :
        Begin("attachChildrenWithFilter",
              [parents |-> parents, middle |-> middle, children |-> children,
               parentKey |-> "a", childParentKey |-> "a",
               middleKey |-> "b", childKey |-> "b",
               middleAs |-> "out", childAs |-> "items",
               middleCardinality |-> Undefined,
               childCardinality |-> childCardinality])

BeginGroupBy ==
    Begin("groupBy", [items |-> inputItems, keySelector |-> [field |-> "a"]])

BeginGroupByKey ==
    Begin("groupByKey", [items |-> inputItems, key |-> "a"])

BeginGroupByMany ==
    \E keys \in IndexKeyTuples \cup {<<"a", "b", "n">>} :
        Begin("groupByMany", [items |-> inputItems, keys |-> keys])

BeginGroupByTransform ==
    Begin("groupByTransform",
          [items |-> inputItems, keySelector |-> [field |-> "a"],
           valueTransform |-> "count"])

BeginGroupByComposite ==
    \E keys \in KeyTuples :
        Begin("groupByComposite", [items |-> inputItems, keys |-> keys])

BeginCreateNestedGroups ==
    \E keys \in IndexKeyTuples \cup {<<"a", "b", "n">>} :
        Begin("createNestedGroups", [items |-> inputItems, keys |-> keys])

\* the array the index loop of the call iterates
ScannedArray == IF op \in IndexJoins THEN args.children ELSE args.items

\* the call builds a one-to-one index
FirstWins ==
    \/ op \in {"attachChild", "attachChildComposite"}
    \/ op = "joinBySelectors" /\ args.mode # Str("many")

\* the key the index loop of the call computes for a child (or an item)
IndexKey(child) ==
    CASE op \in {"attachChildren", "attachChild", "attachChildrenWithFilter"} ->
            Get(child, args.childKey)
      [] op = "joinBySelectors" -> Select(args.childSelector, child)
      [] op \in {"attachChildrenComposite", "attachChildComposite"} ->
            makeCompositeKeyExtractor(args.childKeys, child)
      [] op = "groupByKey" -> String(Get(child, args.key))
      [] op = "groupByComposite" -> String(KeyOf([keys |-> args.keys], child))
      [] OTHER -> String(KeyOf(args.keySelector, child))

\* an iteration in which the child replaces the entry of its key
childByKey_iteration_lastWins(map, key, child) == MapSet(map, key, child)

\* one iteration of a first-wins index loop
childByKey_iteration(map, key, child) ==
    IF ~MapHas(map, key) THEN MapSet(map, key, child) ELSE map

\* one iteration of a one-to-many index loop: existing.push(child) writes
\* the array the Map holds for the key, [child] creates an array
childrenByKey_iteration(map, cells, key, child) ==
    LET existing == MapGet(map, key)
    IN  IF ~IsNullish(existing)
        THEN [index |-> map, heap |-> PushTo(cells, existing, child)]
        ELSE [index |-> MapSet(map, key, Ref(Len(cells) + 1)),
              heap |-> Append(cells, <<child>>)]

\* one iteration of a grouping loop: [] creates an array, and
\* result[key].push(item) writes the array the object holds for the key, or
\* throws when the value it holds or inherits is no array
result_iteration(result0, cells, key, item) ==
    LET created == IsNullish(ObjGet(result0, key))
        result1 == IF created
                   THEN ObjSet(result0, key, Ref(Len(cells) + 1))
                   ELSE result0
        cells1 == IF created THEN Append(cells, <<>>) ELSE cells
        target == ObjGet(result1, key)
    IN  IF target.t = "ref"
        THEN [index |-> result1, heap |-> PushTo(cells1, target, item)]
        ELSE Thrown

\* the index and the heap after the iteration of the index loop for the
\* child, whose key is key, or Thrown when the iteration throws
ScanChild_index(key, child) ==
    IF op \in LoopGroupings THEN result_iteration(index, heap, key, child)
    ELSE IF FirstWins
    THEN [index |-> childByKey_iteration(index, key, child), heap |-> heap]
    ELSE childrenByKey_iteration(index, heap, key, child)

\* an iteration that does not move on to the next child
ScanChild_repeating ==
    /\ pc = "index"
    /\ scanned < Len(ScannedArray)
    /\ \E child \in {ScannedArray[scanned + 1]} :
       \E key \in {IndexKey(child)} :
       \E next \in {ScanChild_index(key, child)} :
           IF next = Thrown
           THEN /\ pc' = "done"
                /\ result' = Thrown
                /\ index' = index
                /\ heap' = heap
           ELSE /\ pc' = pc
                /\ result' = result
                /\ index' = next.index
                /\ heap' = next.heap
    /\ UNCHANGED <<Inputs, op, args, calls, scanned, emitted, pairs, mids,
                   stack>>

\* one iteration of the index loop: the next child (or item) is entered,
\* its key is computed, once, and the index is updated; an iteration that
\* throws ends the call
ScanChild ==
    /\ pc = "index"
    /\ scanned < Len(ScannedArray)
    /\ scanned' = scanned + 1
    /\ \E child \in {ScannedArray[scanned + 1]} :
       \E key \in {IndexKey(child)} :
       \E next \in {ScanChild_index(key, child)} :
           IF next = Thrown
           THEN /\ pc' = "done"
                /\ result' = Thrown
                /\ index' = index
                /\ heap' = heap
           ELSE /\ pc' = pc
                /\ result' = result
                /\ index' = next.index
                /\ heap' = next.heap
    /\ UNCHANGED <<Inputs, op, args, calls, emitted, pairs, mids, stack>>

\* the loop has visited every child: a join starts its output pass with an
\* empty array, groupByTransform its loop over the entries with an empty
\* object, and the other groupings return the object the loop has built
EndScan ==
    /\ pc = "index"
    /\ scanned = Len(ScannedArray)
    /\ pc' = IF op \in IndexJoins \cup {"groupByTransform"} THEN "output"
             ELSE "done"
    /\ result' = IF op \in IndexJoins THEN Arr(<<>>)
                 ELSE IF op = "groupByTransform" THEN NewObject
                 ELSE WithArrays(index, heap)
    /\ UNCHANGED <<Inputs, op, args, calls, scanned, index, emitted, pairs,
                   mids, stack, heap>>

\* one iteration of the grouping loop of the call of the recursion that is
\* running: the next item is put into the group of its first key; an
\* iteration that throws ends every call of the recursion
GroupItem ==
    /\ pc = "recurse"
    /\ stack # <<>>
    /\ LET frame == Head(stack)
       IN  /\ Len(frame.keys) >= 1
           /\ frame.visited < Len(frame.items)
           /\ \E item \in {frame.items[frame.visited + 1]} :
              \E groupKey \in {String(Get(item, frame.keys[1]))} :
              \E next \in {result_iteration(frame.groups, heap, groupKey,
                                            item)} :
                  IF next = Thrown
                  THEN /\ pc' = "done"
                       /\ result' = Thrown
                       /\ stack' = <<>>
                       /\ heap' = heap
                  ELSE /\ pc' = pc
                       /\ result' = result
                       /\ stack' = <<[frame EXCEPT !.groups = next.index,
                                                   !.visited = @ + 1]>>
                                   \o Tail(stack)
                       /\ heap' = next.heap
    /\ UNCHANGED <<Inputs, op, args, calls, scanned, index, emitted, pairs,
                   mids>>

\* the call of the recursion that is running has no key, or its loop is
\* over.  With two keys or more and a first-level group left, it calls
\* itself on the next group and the remaining keys.  Otherwise it returns:
\* the items without a key, the groups with one key, its result with more;
\* its caller assigns the value to the entry of the group in its own result
\* and goes on, and what the outermost call returns is the index.
Recurse ==
    /\ pc = "recurse"
    /\ stack # <<>>
    /\ LET frame == Head(stack)
           value == IF Len(frame.keys) = 0 THEN Arr(frame.items)
                    ELSE IF Len(frame.keys) = 1
                    THEN WithArrays(frame.groups, heap)
                    ELSE frame.result
       IN  /\ Len(frame.keys) = 0 \/ frame.visited = Len(frame.items)
           /\ IF /\ Len(frame.keys) >= 2
                 /\ frame.assigned < Len(frame.groups.keys)
              THEN LET groupKey == frame.groups.keys[frame.assigned + 1]
                       groupItems == Deref(frame.groups.m[groupKey], heap)
                   IN  /\ stack' = <<Frame(groupItems.items, Tail(frame.keys),
                                           frame.level + 1)>> \o stack
                       /\ index' = index
              ELSE IF Len(stack) = 1
              THEN /\ stack' = <<>>
                   /\ index' = value
              ELSE LET caller == stack[2]
                       groupKey == caller.groups.keys[caller.assigned + 1]
                   IN  /\ stack' =
                              <<[caller EXCEPT
                                    !.result = ObjSet(@, groupKey, value),
                                    !.assigned = @ + 1]>>
                              \o SubSeq(stack, 3, Len(stack))
                       /\ index' = index
    /\ UNCHANGED <<Inputs, op, args, result, calls, pc, scanned, emitted,
                   pairs, mids, heap>>

\* the recursion has returned: a nested join starts its output pass, a
\* grouping returns the tree
EndRecurse ==
    /\ pc = "recurse"
    /\ stack = <<>>
    /\ pc' = IF op \in NestedJoins THEN "output" ELSE "done"
    /\ result' = IF op \in NestedJoins THEN Arr(<<>>) ELSE index
    /\ UNCHANGED <<Inputs, op, args, calls, scanned, index, emitted, pairs,
                   mids, stack, heap>>

\* attachChildrenWithFilter: the callback of middle.map for the next middle
\* record of the parent the output pass is at
VisitPair ==
    /\ pc = "output"
    /\ op = "attachChildrenWithFilter"
    /\ emitted < Len(args.parents)
    /\ Len(mids) < Len(args.middle)
    /\ mids' = Append(mids,
                      attachChildrenWithFilter_mid(args,
                                                   WithArrays(index, heap),
                                                   args.parents[emitted + 1],
                                                   args.middle[Len(mids) + 1]))
    /\ pairs' = pairs + 1
    /\ UNCHANGED <<Inputs, op, args, result, calls, pc, scanned, index,
                   emitted, stack, heap>>

\* the number of callbacks of the output pass of the call: one per parent
\* of a join, one per entry of the grouping for groupByTransform
OutputLength ==
    IF op \in IndexJoins \cup NestedJoins THEN Len(args.parents)
    ELSE Len(index.keys)

\* the value the callback of the output pass attaches to the parent; what
\* the index of a one-to-many join returns is a reference
Attached(parent) ==
    CASE op = "attachChildren" ->
            Deref(Coalesce(MapGet(index, Get(parent, args.parentKey)),
                           Arr(<<>>)), heap)
      [] op = "attachChild" ->
            Coalesce(MapGet(index, Get(parent, args.parentKey)), Null)
      [] op = "joinBySelectors" ->
            Deref(Coalesce(MapGet(index, Select(args.parentSelector, parent)),
                           IF args.mode = Str("many") THEN Arr(<<>>)
                           ELSE Null), heap)
      [] op = "attachChildrenComposite" ->
            Deref(Coalesce(MapGet(index,
                                  makeCompositeKeyExtractor(args.parentKeys,
                                                            parent)),
                           Arr(<<>>)), heap)
      [] op = "attachChildComposite" ->
            Coalesce(MapGet(index,
                            makeCompositeKeyExtractor(args.parentKeys, parent)),
                     Null)
      [] op \in NestedJoins ->
            LET path == [j \in 1..Len(args.parentKeys) |->
                            Get(parent, args.parentKeys[j])]
                matchingChildren == getFromNestedGroups(index, path)
            IN  IF op = "attachChildrenNested" THEN matchingChildren
                ELSE IF Len(matchingChildren.items) > 0
                THEN matchingChildren.items[1]
                ELSE Null
      [] OTHER ->
            IF Default(args.middleCardinality, Str("many")) = Str("one")
            THEN Coalesce(First(Arr(mids)), Undefined)
            ELSE Arr(mids)

\* an output pass that assigns the attached field into the record of the
\* parent and returns that record
EmitParent_assigning ==
    /\ pc = "output"
    /\ emitted < OutputLength
    /\ op = "attachChildrenWithFilter" => Len(mids) = Len(args.middle)
    /\ emitted' = emitted + 1
    /\ IF op = "groupByTransform"
       THEN LET key == index.keys[emitted + 1]
                group == Deref(index.m[key], heap)
            IN  /\ result' = ObjSet(result, key,
                                    ValueOf(args.valueTransform, group))
                /\ calls' = Append(calls, group)
                /\ heap' = heap
       ELSE LET parent == args.parents[emitted + 1]
                as == IF op = "attachChildrenWithFilter" THEN args.middleAs
                      ELSE args.as
                assigned == Spread(parent, as, Attached(parent))
            IN  /\ result' = Push(result, assigned)
                /\ calls' = calls
                /\ heap' = [heap EXCEPT ![1][emitted + 1] = assigned]
    /\ mids' = <<>>
    /\ UNCHANGED <<Inputs, op, args, pc, scanned, index, pairs, stack>>

\* the callback of the output pass returns the record of the next parent;
\* the loop of groupByTransform sets the next entry of its result
EmitParent ==
    /\ pc = "output"
    /\ emitted < OutputLength
    /\ op = "attachChildrenWithFilter" => Len(mids) = Len(args.middle)
    /\ emitted' = emitted + 1
    /\ IF op = "groupByTransform"
       THEN LET key == index.keys[emitted + 1]
                group == Deref(index.m[key], heap)
            IN  /\ result' = ObjSet(result, key,
                                    ValueOf(args.valueTransform, group))
                /\ calls' = Append(calls, group)
       ELSE LET parent == args.parents[emitted + 1]
                as == IF op = "attachChildrenWithFilter" THEN args.middleAs
                      ELSE args.as
            IN  /\ result' = Push(result, Spread(parent, as, Attached(parent)))
                /\ calls' = calls
    /\ mids' = <<>>
    /\ UNCHANGED <<Inputs, op, args, pc, scanned, index, pairs, stack, heap>>

\* the output pass is over: the operator returns
Return ==
    /\ pc = "output"
    /\ emitted = OutputLength
    /\ pc' = "done"
    /\ UNCHANGED <<Inputs, op, args, result, calls, scanned, index, emitted,
                   pairs, mids, stack, heap>>

NextRun ==
    \/ BeginAttachChildren
    \/ BeginAttachChild
    \/ BeginJoinBySelectors
    \/ BeginAttachChildrenComposite
    \/ BeginAttachChildComposite
    \/ BeginAttachChildrenNested
    \/ BeginAttachChildNested
    \/ BeginAttachChildrenWithFilter
    \/ BeginGroupBy
    \/ BeginGroupByKey
    \/ BeginGroupByMany
    \/ BeginGroupByTransform
    \/ BeginGroupByComposite
    \/ BeginCreateNestedGroups
    \/ ScanChild
    \/ EndScan
    \/ GroupItem
    \/ Recurse
    \/ EndRecurse
    \/ VisitPair
    \/ EmitParent
    \/ Return

SpecRun == InitRun /\ [][NextRun]_vars

\* the steps of a call are those of one thread that runs to completion:
\* a step that can be taken is taken
SpecRunFair == SpecRun /\ WF_vars(NextRun)

(***************************************************************************)
(* Properties.                                                             *)
(***************************************************************************)
JoinOps == {"attachChildren", "attachChild", "joinBySelectors",
            "attachChildrenComposite", "attachChildComposite",
            "attachChildrenNested", "attachChildNested",
            "attachChildrenWithFilter"}

\* the name of the field the call attaches to each parent
AsField == IF op = "attachChildrenWithFilter" THEN args.middleAs ELSE args.as

\* two key values are equal as lookup keys: scalars of the same type and
\* value (NaN is the key NaN), or one and the same object; an array or a
\* record is not the key another array or record of the same content is
SameKey(a, b) ==
    \/ IsScalar(a) /\ IsScalar(b) /\ a.t = b.t /\ a.s = b.s
    \/ /\ ~IsScalar(a) /\ ~IsScalar(b)
       /\ "identity" \in DOMAIN a /\ "identity" \in DOMAIN b
       /\ a.identity = b.identity

\* a == b as the ownership filter of the three-level join compares: equal
\* as lookup keys and not NaN, which is equal to no value
Equal(a, b) == SameKey(a, b) /\ a # Num("NaN")

\* the children c with c[childKey] equal to v, in input order
ChildrenWith(childKey, v) ==
    SelectSeq(children, LAMBDA c : SameKey(Get(c, childKey), v))

\* C1: every join returns exactly one record per parent, the i-th one made
\* from the i-th parent (it has that parent's values in the fields the call
\* does not attach), whatever the number of matching children.
C1_OrderAndCompleteness ==
    op \in JoinOps =>
        /\ IsArray(result)
        /\ Len(result.items) = Len(parents)
        /\ \A i \in 1..Len(parents) :
               \A f \in DOMAIN parents[i] \ {AsField} :
                   /\ f \in DOMAIN result.items[i]
                   /\ result.items[i][f] = parents[i][f]

\* C2: attachChildren attaches to every parent exactly the children whose
\* childKey value equals the parent's parentKey value as a lookup key, each
\* once, in the order of the children input, and the empty array when there
\* is none.
C2_AttachChildrenMatches ==
    op = "attachChildren" =>
        \A i \in 1..Len(parents) :
            /\ args.as \in DOMAIN result.items[i]
            /\ result.items[i][args.as] =
                   Arr(ChildrenWith(args.childKey,
                                    Get(parents[i], args.parentKey)))

\* the key of the first parent is an array: the parent gets the second
\* child, whose key is that array, and not the first, whose key is another
\* array of the same content; the other parent gets the empty array
C2_Witness ==
    /\ op = "attachChildren"
    /\ Len(parents) = 2
    /\ Len(children) = 2
    /\ parents[1].a = KeyObject(1)
    /\ children[1].a = KeyObject(2)
    /\ children[2].a = KeyObject(1)
    /\ result.items[1][args.as] = Arr(<<children[2]>>)
    /\ result.items[2][args.as] = Arr(<<>>)

\* the smallest index of a child whose childKey value equals v, 0 if none
FirstIndexWith(childKey, v) ==
    IF \E j \in 1..Len(children) : SameKey(Get(children[j], childKey), v)
    THEN CHOOSE j \in 1..Len(children) :
             /\ SameKey(Get(children[j], childKey), v)
             /\ \A k \in 1..(j - 1) : ~SameKey(Get(children[k], childKey), v)
    ELSE 0

\* C3: attachChild attaches to every parent the first child, in the order of
\* the children input, whose childKey value equals the parent's parentKey
\* value as a lookup key; without a match the field is present and holds
\* null.
C3_AttachChildFirstMatch ==
    op = "attachChild" =>
        \A i \in 1..Len(parents) :
            LET j == FirstIndexWith(args.childKey,
                                    Get(parents[i], args.parentKey))
            IN  /\ args.as \in DOMAIN result.items[i]
                /\ result.items[i][args.as] =
                       IF j = 0 THEN Null ELSE children[j]

\* two children share the key of the first parent, NaN, which gets the
\* first of them; the key of the second parent is an array, no child has
\* that array as its key, and the parent gets null
C3_Witness ==
    /\ op = "attachChild"
    /\ Len(parents) = 2
    /\ Len(children) = 2
    /\ parents[1].a = Num("NaN")
    /\ children[1].a = Num("NaN")
    /\ children[2].a = Num("NaN")
    /\ parents[2].a = KeyObject(1)
    /\ result.items[1][args.as] = children[1]
    /\ result.items[2][args.as] = Null

\* C4: for the same parameters, attachChild attaches to the i-th parent the
\* first element of what attachChildren attaches to it, and null when
\* attachChildren attaches the empty array.
C4_CardinalityDuality ==
    op = "attachChild" =>
        \A i \in 1..Len(parents) :
            LET many == attachChildren(args).items[i][args.as]
            IN  result.items[i][args.as] =
                    IF Len(many.items) > 0 THEN many.items[1] ELSE Null

\* attachChildren would attach two children to one parent, whose key is an
\* array, and none to another
C4_Witness ==
    /\ op = "attachChild"
    /\ \E i \in 1..Len(parents) :
           /\ parents[i].a = KeyObject(1)
           /\ Len(attachChildren(args).items[i][args.as].items) = 2
    /\ \E i \in 1..Len(parents) :
           Len(attachChildren(args).items[i][args.as].items) = 2
    /\ \E i \in 1..Len(parents) :
           /\ Len(attachChildren(args).items[i][args.as].items) = 0
           /\ result.items[i][args.as] = Null

\* C5: the serialized strategy and the nested strategy return identical
\* results: attachChildrenComposite as attachChildrenNested, and
\* attachChildComposite as attachChildNested, for the same parameters.
C5_StrategyEquivalence ==
    /\ op = "attachChildrenComposite" => result = attachChildrenNested(args)
    /\ op = "attachChildComposite" => result = attachChildNested(args)
    /\ op = "attachChildrenNested" => result = attachChildrenComposite(args)
    /\ op = "attachChildNested" => result = attachChildComposite(args)

(***************************************************************************)
(* The three-level join.                                                   *)
(***************************************************************************)
IsFilterCall == op = "attachChildrenWithFilter"
ChildMany == args.childCardinality \in {Str("many"), Undefined}
MiddleMany == args.middleCardinality \in {Str("many"), Undefined}

\* the enriched middle records the call attached to the i-th parent
MiddleOf(i) ==
    LET v == result.items[i][args.middleAs]
    IN  IF IsArray(v) THEN v.items
        ELSE IF v = Undefined THEN <<>> ELSE <<v>>

\* the children of middle record m that belong to parent p, in input order:
\* those that share the middle key of m, a lookup key, and whose
\* childParentKey value == the parentKey value of p
OwnedChildren(p, m) ==
    SelectSeq(children, LAMBDA c :
        /\ SameKey(Get(c, args.childKey), Get(m, args.middleKey))
        /\ Equal(Get(c, args.childParentKey), Get(p, args.parentKey)))

\* C6: with childCardinality "many" or omitted, the array attached under
\* childAs to the copy of middle record m inside parent p's result holds
\* exactly the children whose childKey value equals m's middleKey value as a
\* lookup key and whose childParentKey value == p's parentKey value, in
\* input order.
C6_FilteredChildrenMany ==
    (IsFilterCall /\ ChildMany) =>
        \A i \in 1..Len(parents) :
            \A j \in 1..Len(MiddleOf(i)) :
                /\ args.childAs \in DOMAIN MiddleOf(i)[j]
                /\ MiddleOf(i)[j][args.childAs] =
                       Arr(OwnedChildren(parents[i], middle[j]))

\* two children of the same middle record, whose key is an array, belong
\* to different parents, whose keys are two arrays of the same content, and
\* each parent gets its own child only
C6_Witness ==
    /\ IsFilterCall /\ ChildMany /\ MiddleMany
    /\ Len(parents) = 2 /\ Len(children) = 2 /\ Len(middle) >= 1
    /\ middle[1].b = KeyObject(1)
    /\ children[1].b = KeyObject(1)
    /\ children[2].b = KeyObject(1)
    /\ parents[1].a = KeyObject(1) /\ parents[2].a = KeyObject(2)
    /\ MiddleOf(1)[1][args.childAs] = Arr(<<children[2]>>)
    /\ MiddleOf(2)[1][args.childAs] = Arr(<<children[1]>>)

\* C7: with middleCardinality "many" or omitted, every parent gets under
\* middleAs an array of exactly Len(middle) records, the j-th one carrying
\* the fields of the j-th middle record, whichever children match.
C7_CatalogNeverFiltered ==
    (IsFilterCall /\ MiddleMany) =>
        \A i \in 1..Len(parents) :
            LET v == result.items[i][args.middleAs]
            IN  /\ IsArray(v)
                /\ Len(v.items) = Len(middle)
                /\ \A j \in 1..Len(middle) :
                       \A f \in DOMAIN middle[j] \ {args.childAs} :
                           /\ f \in DOMAIN v.items[j]
                           /\ v.items[j][f] = middle[j][f]

\* a parent without any child still gets both middle records
C7_Witness ==
    /\ IsFilterCall /\ MiddleMany /\ ChildMany
    /\ Len(middle) = 2
    /\ Len(children) > 0
    /\ \E i \in 1..Len(parents) :
           /\ Len(MiddleOf(i)) = 2
           /\ MiddleOf(i)[1][args.childAs] = Arr(<<>>)
           /\ MiddleOf(i)[2][args.childAs] = Arr(<<>>)

\* C8: with childCardinality "one", childAs holds the first child, in input
\* order, that matches both the middle record (by lookup key) and the parent
\* (by ==), and the absence marker (undefined, the field being present) when
\* none does; never an array.
C8_FilteredChildOne ==
    (IsFilterCall /\ args.childCardinality = Str("one")) =>
        \A i \in 1..Len(parents) :
            \A j \in 1..Len(MiddleOf(i)) :
                LET owned == OwnedChildren(parents[i], middle[j])
                    v == Get(MiddleOf(i)[j], args.childAs)
                IN  /\ args.childAs \in DOMAIN MiddleOf(i)[j]
                    /\ ~IsArray(v)
                    /\ v = IF Len(owned) > 0 THEN owned[1] ELSE Undefined

\* the first child of the middle key belongs to a parent whose key is
\* another array of the same content: the first parent gets the second
\* child; the key of the second parent is NaN, which == no key, and the
\* parent gets the absence marker although a child has the key NaN
C8_Witness ==
    /\ IsFilterCall /\ args.childCardinality = Str("one") /\ MiddleMany
    /\ Len(parents) = 2 /\ Len(children) = 2 /\ Len(middle) = 1
    /\ SameKey(children[1].b, middle[1].b)
    /\ SameKey(children[2].b, middle[1].b)
    /\ parents[1].a = KeyObject(1)
    /\ children[1].a = KeyObject(2)
    /\ children[2].a = KeyObject(1)
    /\ MiddleOf(1)[1][args.childAs] = children[2]
    /\ parents[2].a = Num("NaN")
    /\ MiddleOf(2)[1][args.childAs] = Undefined

\* what childAs holds for parent p and middle record m
ExpectedChildValue(p, m) ==
    LET owned == OwnedChildren(p, m)
    IN  IF args.childCardinality = Str("one")
        THEN IF Len(owned) > 0 THEN owned[1] ELSE Undefined
        ELSE Arr(owned)

\* C9: with middleCardinality "one", middleAs holds the enriched copy of the
\* first middle record, with that parent's filtered children attached, and
\* the absence marker (undefined, the field being present) when the middle
\* input is empty; never an array.
C9_MiddleOne ==
    (IsFilterCall /\ args.middleCardinality = Str("one")) =>
        \A i \in 1..Len(parents) :
            LET v == Get(result.items[i], args.middleAs)
            IN  /\ args.middleAs \in DOMAIN result.items[i]
                /\ ~IsArray(v)
                /\ IF Len(middle) = 0 THEN v = Undefined
                   ELSE /\ v # Undefined
                        /\ DOMAIN v = DOMAIN middle[1] \cup {args.childAs}
                        /\ \A f \in DOMAIN middle[1] \ {args.childAs} :
                               v[f] = middle[1][f]
                        /\ v[args.childAs] =
                               ExpectedChildValue(parents[i], middle[1])

\* two middle records: the parent gets the first, with its own child attached
C9_Witness ==
    /\ IsFilterCall /\ args.middleCardinality = Str("one")
    /\ Len(middle) = 2 /\ Len(parents) >= 1 /\ Len(children) >= 1
    /\ middle[1].b # middle[2].b
    /\ result.items[1][args.middleAs].n = middle[1].n
    /\ Len(OwnedChildren(parents[1], middle[1])) > 0

(***************************************************************************)
(* Frame of the enrichment.                                                *)
(***************************************************************************)
\* the enriched record e has the fields of r and the field as, and the
\* fields in keep have the values they have in r
Enriches(e, r, as, keep) ==
    /\ DOMAIN e = DOMAIN r \cup {as}
    /\ \A f \in keep : e[f] = r[f]

\* a join has returned its output (it has not thrown)
JoinReturned == op \in JoinOps /\ result # Thrown

\* what the join named name returns for the parameters params
JoinOf(name, params) ==
    CASE name = "attachChildren" -> attachChildren(params)
      [] name = "attachChild" -> attachChild(params)
      [] name = "joinBySelectors" -> joinBySelectors(params)
      [] name = "attachChildrenComposite" -> attachChildrenComposite(params)
      [] name = "attachChildComposite" -> attachChildComposite(params)
      [] name = "attachChildrenNested" -> attachChildrenNested(params)
      [] name = "attachChildNested" -> attachChildNested(params)
      [] OTHER -> attachChildrenWithFilter(params)

\* the parameters of the call with output names that no record has
FreshNames ==
    IF IsFilterCall
    THEN [args EXCEPT !.middleAs = "fresh", !.childAs = "freshChild"]
    ELSE [args EXCEPT !.as = "fresh"]

\* the value the call attaches to the i-th parent when the output name is a
\* name no parent has, and for the filter join the enriched middle records
\* it then attaches to the i-th parent
AttachedFresh(i) == JoinOf(op, FreshNames).items[i].fresh
MiddleFresh(i) ==
    IF IsArray(AttachedFresh(i)) THEN AttachedFresh(i).items
    ELSE IF AttachedFresh(i) = Undefined THEN <<>> ELSE <<AttachedFresh(i)>>

\* the field as of the enriched records holds the value the join attaches,
\* which is the value it attaches under a name no record has: for the
\* filter join the same number of enriched middle records, as an array or
\* as one value alike, each with that value under childAs
HoldsAttached ==
    \A i \in 1..Len(parents) :
        IF ~IsFilterCall
        THEN result.items[i][AsField] = AttachedFresh(i)
        ELSE /\ IsArray(result.items[i][AsField]) = IsArray(AttachedFresh(i))
             /\ (result.items[i][AsField] = Undefined)
                    = (AttachedFresh(i) = Undefined)
             /\ Len(MiddleOf(i)) = Len(MiddleFresh(i))
             /\ \A j \in 1..Len(MiddleOf(i)) :
                    MiddleOf(i)[j][args.childAs] = MiddleFresh(i)[j].freshChild

\* C10 as stated: in the output of a join, the enriched record has the
\* fields of p and the field as, which holds the attached value, and every
\* field of p keeps its value, for every output field name; the same for
\* the enriched middle records and childAs.
C10_EveryFieldKept ==
    JoinReturned =>
        /\ HoldsAttached
        /\ \A i \in 1..Len(parents) :
               /\ Enriches(result.items[i], parents[i], AsField,
                           DOMAIN parents[i])
               /\ IsFilterCall =>
                      \A j \in 1..Len(MiddleOf(i)) :
                          Enriches(MiddleOf(i)[j], middle[j], args.childAs,
                                   DOMAIN middle[j])

\* C10 amended: in the output of a join, the enriched record has the fields
\* of p and the field as, which holds the attached value, also when p has a
\* field of that name, and every field of p other than as keeps its value.
\* The same for the enriched middle records and childAs.
C10_OtherFieldsKept ==
    JoinReturned =>
        /\ HoldsAttached
        /\ \A i \in 1..Len(parents) :
               /\ Enriches(result.items[i], parents[i], AsField,
                           DOMAIN parents[i] \ {AsField})
               /\ IsFilterCall =>
                      \A j \in 1..Len(MiddleOf(i)) :
                          Enriches(MiddleOf(i)[j], middle[j], args.childAs,
                                   DOMAIN middle[j] \ {args.childAs})

\* a three-level join whose output names are fields the records already
\* have: the field b of the parent, which held 1, holds the two enriched
\* middle records, and their field b holds the children
C10_Witness ==
    /\ IsFilterCall /\ MiddleMany /\ ChildMany
    /\ Len(parents) = 2 /\ Len(middle) = 2 /\ Len(children) = 2
    /\ args.middleAs = "b" /\ args.childAs = "b"
    /\ parents[1].b = Num("1")
    /\ IsArray(result.items[1].b)
    /\ Len(result.items[1].b.items) = 2
    /\ result.items[1].a = parents[1].a
    /\ MiddleOf(2)[2].n = middle[2].n
    /\ \E j \in 1..2 : MiddleOf(1)[j].b = Arr(children)

(***************************************************************************)
(* Selector joins.                                                         *)
(***************************************************************************)
\* the parameters of the field-name join that reads the fields the selectors
\* of the call project
FieldParams ==
    [parents |-> args.parents, children |-> args.children,
     parentKey |-> args.parentSelector.field,
     childKey |-> args.childSelector.field, as |-> args.as]

\* C12: joinBySelectors whose selectors are the projections p => p[parentKey]
\* and c => c[childKey] returns with mode "many" what attachChildren returns
\* for parentKey and childKey, and with mode "one" what attachChild returns.
C12_SelectorsAgreeWithFields ==
    op = "joinBySelectors" =>
        /\ args.mode = Str("many") => result = attachChildren(FieldParams)
        /\ args.mode = Str("one") => result = attachChild(FieldParams)

\* mode "one" with two children of the key of the first parent, and the
\* number 1 and the string "1" both among the keys
C12_Witness ==
    /\ op = "joinBySelectors" /\ args.mode = Str("one")
    /\ Len(parents) = 2 /\ Len(children) = 2
    /\ parents[1].a = Num("1") /\ parents[2].a = Str("1")
    /\ children[1].a = Num("1") /\ children[2].a = Num("1")
    /\ result.items[1][args.as] = children[1]
    /\ result.items[2][args.as] = Null

\* C13: joinBySelectors called without mode gives each parent, under as, the
\* array of all the children whose childSelector key equals the parent's
\* parentSelector key.
C13_OmittedModeIsMany ==
    (op = "joinBySelectors" /\ args.mode = Undefined) =>
        \A i \in 1..Len(parents) :
            result.items[i][args.as] =
                Arr(SelectSeq(children,
                        LAMBDA c : Select(args.childSelector, c) =
                                   Select(args.parentSelector, parents[i])))

(***************************************************************************)
(* Grouping.                                                               *)
(***************************************************************************)
\* the name of the group of a record: its key as a property name
GroupNameOf(keySelector, r) == String(KeyOf(keySelector, r))

\* the number of positions of the sequence xs that hold r
Occurrences(r, xs) == Cardinality({j \in 1..Len(xs) : xs[j] = r})

\* the sum of the lengths of the groups of the first n keys of a mapping
RECURSIVE SumOfGroupLengths(_, _)
SumOfGroupLengths(obj, n) ==
    IF n = 0 THEN 0
    ELSE SumOfGroupLengths(obj, n - 1) + Len(obj.m[obj.keys[n]].items)

\* the keys of a mapping are its enumeration, each once
KeysWellFormed(obj) ==
    /\ {obj.keys[j] : j \in 1..Len(obj.keys)} = DOMAIN obj.m
    /\ \A i, j \in 1..Len(obj.keys) : obj.keys[i] = obj.keys[j] => i = j

\* C14: groupBy partitions its input.  Every record is in the group named by
\* its key, once, and in no other group; the group lengths add up to the
\* input length; no group is empty; each group holds its records in input
\* order; an empty input gives the empty mapping.
C14_GroupByPartitions ==
    op = "groupBy" =>
        /\ result.t = "object"
        /\ KeysWellFormed(result)
        /\ \A i \in 1..Len(inputItems) :
               LET r == inputItems[i]
                   name == GroupNameOf(args.keySelector, r)
               IN  /\ name \in DOMAIN result.m
                   /\ \A k \in DOMAIN result.m :
                          Occurrences(r, result.m[k].items) =
                              IF k = name THEN 1 ELSE 0
        /\ SumOfGroupLengths(result, Len(result.keys)) = Len(inputItems)
        /\ \A k \in DOMAIN result.m :
               /\ IsArray(result.m[k])
               /\ Len(result.m[k].items) > 0
               /\ result.m[k].items =
                      SelectSeq(inputItems,
                          LAMBDA r : GroupNameOf(args.keySelector, r) = k)
        /\ inputItems = <<>> => result = NewObject

\* the names of the groups of the first n items, each once, in the order of
\* their first occurrence
RECURSIVE FirstSeen(_, _, _)
FirstSeen(xs, keySelector, n) ==
    IF n = 0 THEN <<>>
    ELSE LET before == FirstSeen(xs, keySelector, n - 1)
             name == GroupNameOf(keySelector, xs[n])
         IN  IF \E j \in 1..Len(before) : before[j] = name
             THEN before
             ELSE Append(before, name)

\* C15: when the selector returns strings or numbers, the keys of the
\* mapping groupBy returns (when it returns one) are enumerated in the order of their first
\* occurrence in the input.
C15_FirstSeenKeyOrder ==
    (/\ op = "groupBy"
     /\ result # Thrown
     /\ \A i \in 1..Len(inputItems) :
            KeyOf(args.keySelector, inputItems[i]).t \in {"string", "number"})
    => result.keys = FirstSeen(inputItems, args.keySelector, Len(inputItems))

\* C16: groupByKey(items, field) returns the mapping groupBy returns for the
\* selector r => r[field]: same keys in the same enumeration, same groups.
C16_GroupByKeyIsGroupBy ==
    op = "groupByKey" =>
        result = groupBy(args.items, [field |-> args.key])

\* three items, two of them of one key
C16_Witness ==
    /\ op = "groupByKey" /\ args.key = "a"
    /\ Len(inputItems) = 3
    /\ inputItems[1].a = Num("2") /\ inputItems[2].a = Num("1")
    /\ inputItems[3].a = Num("2")
    /\ result.keys = <<"1", "2">>
    /\ result.m["2"] = Arr(<<inputItems[1], inputItems[3]>>)

\* every branch of the tree has depth k: mappings down to level k, where
\* the leaves are arrays
RECURSIVE HasDepth(_, _)
HasDepth(tree, k) ==
    IF k = 0 THEN IsArray(tree)
    ELSE /\ tree.t = "object"
         /\ KeysWellFormed(tree)
         /\ \A name \in DOMAIN tree.m : HasDepth(tree.m[name], k - 1)

\* the paths of length k of a tree of depth k
RECURSIVE TreePaths(_, _)
TreePaths(tree, k) ==
    IF k = 0 THEN {<<>>}
    ELSE UNION {{<<name>> \o path : path \in TreePaths(tree.m[name], k - 1)} :
                   name \in DOMAIN tree.m}

\* the node a path of the tree leads to
RECURSIVE Walk(_, _)
Walk(tree, path) ==
    IF Len(path) = 0 THEN tree ELSE Walk(tree.m[Head(path)], Tail(path))

\* the path of a record: the values of its fields, as property names
PathOf(keys, r) == [i \in 1..Len(keys) |-> String(Get(r, keys[i]))]

\* C17: groupByMany(items, [f1..fk]) is a tree of depth k whose leaf at the
\* path [v1..vk] holds exactly the records r with r[fi] = vi for every i
\* (values compared as property names), in input order; no leaf is empty and
\* every record is in a leaf; with k = 1 the result is groupByKey(items, f1)
\* and with k = 0 it is the input sequence.
C17_GroupByManyTree ==
    op = "groupByMany" =>
        LET k == Len(args.keys)
        IN  /\ HasDepth(result, k)
            /\ k >= 1 =>
                   /\ \A path \in TreePaths(result, k) :
                          /\ Len(Walk(result, path).items) > 0
                          /\ Walk(result, path).items =
                                 SelectSeq(inputItems,
                                     LAMBDA r : PathOf(args.keys, r) = path)
                   /\ \A i \in 1..Len(inputItems) :
                          PathOf(args.keys, inputItems[i])
                              \in TreePaths(result, k)
            /\ k = 1 => result = groupByKey(inputItems, args.keys[1])
            /\ k = 0 => result = Arr(inputItems)

\* tree[v1]...[vk] as a caller reads it, the empty array where a level has
\* no such property
RECURSIVE Navigate(_, _)
Navigate(tree, path) ==
    IF Len(path) = 0
    THEN IF IsArray(tree) THEN tree ELSE Arr(<<>>)
    ELSE IF tree.t = "object" /\ ObjHas(tree, String(Head(path)))
    THEN Navigate(ObjGet(tree, String(Head(path))), Tail(path))
    ELSE Arr(<<>>)

\* the values a path element is drawn from
PathValues == GroupKeys \cup {Undefined}

\* C18: groupByMany(R, F) is the tree createNestedGroups(R, F) builds (both
\* throw where one does), and reading the tree it returns along a path
\* [v1..vk] gives getFromNestedGroups(createNestedGroups(R, F), [v1..vk]),
\* for every path.
C18_GroupByManyIsNestedIndex ==
    op = "groupByMany" =>
        LET nestedGroups == createNestedGroups(inputItems, args.keys)
        IN  /\ result = nestedGroups
            /\ result # Thrown
               => \A path \in [1..Len(args.keys) -> PathValues] :
                      Navigate(result, path) =
                          getFromNestedGroups(nestedGroups, path)

\* the names of the groups of the items: their distinct keys
GroupNames(keySelector) ==
    {GroupNameOf(keySelector, inputItems[i]) : i \in 1..Len(inputItems)}

\* the items of one key, in input order
ItemsNamed(keySelector, name) ==
    Arr(SelectSeq(inputItems, LAMBDA r : GroupNameOf(keySelector, r) = name))

\* C19: groupByTransform invokes valueTransform once per distinct key of the
\* input, with the records of that key in input order, and the result maps
\* every distinct key, and nothing else, to what that invocation returned.
C19_TransformOncePerKey ==
    op = "groupByTransform" =>
        LET names == GroupNames(args.keySelector)
        IN  /\ Len(calls) = Cardinality(names)
            /\ \A name \in names :
                   Cardinality({j \in 1..Len(calls) :
                       calls[j] = ItemsNamed(args.keySelector, name)}) = 1
            /\ result.t = "object"
            /\ KeysWellFormed(result)
            /\ DOMAIN result.m = names
            /\ \A name \in names :
                   result.m[name] =
                       ValueOf(args.valueTransform,
                               ItemsNamed(args.keySelector, name))

\* the groups of the first n keys of a mapping, concatenated in key order
RECURSIVE FlattenGroups(_, _)
FlattenGroups(obj, n) ==
    IF n = 0 THEN <<>>
    ELSE FlattenGroups(obj, n - 1) \o obj.m[obj.keys[n]].items

\* C20: concatenating the groups of the mapping groupBy(items, k) returns
\* (when it returns one) in the key order of the mapping and grouping that sequence with the same selector gives the
\* same mapping: same keys in the same order, same groups.
C20_GroupingIdempotent ==
    (op = "groupBy" /\ result # Thrown) =>
        groupBy(FlattenGroups(result, Len(result.keys)), args.keySelector)
            = result

\* the flattened sequence is not the input: the key seen second is
\* enumerated first, and the group of the other key has two records
C20_Witness ==
    /\ op = "groupBy" /\ args.keySelector = [field |-> "a"]
    /\ Len(inputItems) = 3
    /\ inputItems[1].a = Str("x") /\ inputItems[2].a = Num("2")
    /\ inputItems[3].a = Str("x")
    /\ result.keys = <<"2", "x">>
    /\ FlattenGroups(result, Len(result.keys)) =
           <<inputItems[2], inputItems[1], inputItems[3]>>

(***************************************************************************)
(* The frame of every operator.                                            *)
(***************************************************************************)
\* the arrays the caller passed are, in the heap of the call, what they were
\* when the call began
InputsAsPassed ==
    /\ Len(heap) >= 4
    /\ heap[1] = parents
    /\ heap[2] = children
    /\ heap[3] = middle
    /\ heap[4] = inputItems

\* a step of the call writes none of the four arrays the caller passed
InputsNotWritten ==
    pc # "idle" => \A r \in 1..4 : heap'[r] = heap[r]

\* C11: no grouping or join operator changes its inputs; during a call and
\* after it the parents, children, middle and items arrays have the length,
\* the order, the records and the field values they had before it: no step
\* of a call writes one of them.
C11_InputsUnchanged ==
    /\ [](pc # "idle" => InputsAsPassed)
    /\ [][InputsNotWritten]_vars

\* a one-to-many join has returned: its index loop has created an array for
\* the first child and has pushed the second child, of the same key, into
\* it, and its output pass has returned two enriched parents
C11_Witness ==
    /\ pc = "done"
    /\ op \in {"attachChildren", "attachChildrenComposite"}
    /\ Len(parents) = 2 /\ Len(children) = 2
    /\ Len(heap) = 5
    /\ heap[5] = children
    /\ result # Thrown
    /\ Len(result.items) = 2
    /\ result.items[1][args.as] = Arr(children)

(***************************************************************************)
(* The nested index and the composite key, on their own.                   *)
(***************************************************************************)
\* C21: getFromNestedGroups returns the empty array when the path is
\* shorter or longer than the tree is deep and when a level of the tree
\* lacks the path's value; with an empty path it returns the tree when the
\* tree is an array of records and the empty array otherwise.
C21_LookupEmptyOnMismatch ==
    op = "getFromNestedGroups" =>
        LET tree == args.nestedGroups
            path == args.path
            depth == Len(args.keys)
        IN  /\ IsArray(result)
            /\ Len(path) = 0 =>
                   result = IF IsArray(tree) THEN tree ELSE Arr(<<>>)
            /\ Len(path) # depth => result = Arr(<<>>)
            /\ (/\ Len(path) = depth
                /\ \E n \in 1..depth :
                       LET node == Walk(tree, [i \in 1..(n - 1) |->
                                                  String(path[i])])
                       IN  ~ObjHas(node, String(path[n])))
               => result = Arr(<<>>)

\* String(v ?? ""), the rendering of one value of a composite key
Rendering(v) == IF IsNullish(v) THEN "" ELSE String(v)

\* the string s contains the string sub
Contains(s, sub) ==
    \E i \in 1..(Len(s) - Len(sub) + 1) : SubSeq(s, i, i + Len(sub) - 1) = sub

SeparatorFree(values) ==
    \A i \in 1..Len(values) : ~Contains(Rendering(values[i]), Separator)

\* C22: createCompositeKey joins the renderings String(v) of the values,
\* null and undefined rendered as the empty string, with "||~~||"; a tuple
\* of the same length has the same key only if its renderings are the same,
\* one by one, provided no rendering of either tuple contains the separator.
C22_CompositeKeyRendering ==
    op = "createCompositeKey" =>
        LET values == args.values
        IN  /\ result =
                   Str(Join([i \in 1..Len(values) |-> Rendering(values[i])],
                            "||~~||"))
            /\ SeparatorFree(values) =>
                   \A other \in ValueTuples :
                       (/\ Len(other) = Len(values)
                        /\ createCompositeKey(other) = result
                        /\ SeparatorFree(other))
                       => \A i \in 1..Len(values) :
                              Rendering(other[i]) = Rendering(values[i])

\* the values of the key fields of a record
ValuesOf(keys, r) == [i \in 1..Len(keys) |-> Get(r, keys[i])]

\* C28: for a non-empty field tuple F and every record r of R, the lookup of
\* [r[f] for f in F] in createNestedGroups(R, F) returns exactly the records
\* of R that agree with r on every field of F, r among them, in input order.
C28_NestedRoundTrip ==
    (op = "createNestedGroups" /\ Len(args.keys) >= 1) =>
        \A i \in 1..Len(inputItems) :
            getFromNestedGroups(result, ValuesOf(args.keys, inputItems[i])) =
                Arr(SelectSeq(inputItems,
                        LAMBDA r : ValuesOf(args.keys, r) =
                                   ValuesOf(args.keys, inputItems[i])))

(***************************************************************************)
(* The absence marker of the one-to-one resolutions.                       *)
(***************************************************************************)
\* the calls that attach one child, or the marker, to each parent
IsOneToOneCall ==
    \/ op \in {"attachChild", "attachChildComposite", "attachChildNested"}
    \/ op = "joinBySelectors" /\ args.mode = Str("one")

\* the key fields of the parents and children of such a call
KeyFieldsOfCall ==
    IF op \in {"attachChildComposite", "attachChildNested"}
    THEN args.parentKeys
    ELSE <<"a">>

IsChild(v) == \E j \in 1..Len(children) : children[j] = v

\* no child has the key of the i-th parent: in the flat and the selector
\* join no child has a key value equal to the parent's as a lookup key; in
\* the composite and the nested join the rendering of some key field of
\* every child differs from the parent's
Unmatched(i) ==
    IF op \in {"attachChild", "joinBySelectors"}
    THEN \A j \in 1..Len(children) : ~SameKey(children[j].a, parents[i].a)
    ELSE \A j \in 1..Len(children) :
             \E n \in 1..Len(KeyFieldsOfCall) :
                 Rendering(children[j][KeyFieldsOfCall[n]]) #
                     Rendering(parents[i][KeyFieldsOfCall[n]])

\* the one-to-one resolutions attach a child or the marker, under a field
\* that is present, and the marker where nothing matches: null in the flat,
\* selector, composite and nested joins, filterMarker in the filter join
AbsenceMarkers(filterMarker) ==
    /\ IsOneToOneCall =>
           \A i \in 1..Len(parents) :
               /\ args.as \in DOMAIN result.items[i]
               /\ IsChild(result.items[i][args.as])
                      \/ result.items[i][args.as] = Null
               /\ Unmatched(i) => result.items[i][args.as] = Null
    /\ (IsFilterCall /\ args.childCardinality = Str("one")) =>
           \A i \in 1..Len(parents) :
               \A j \in 1..Len(MiddleOf(i)) :
                   LET mid == MiddleOf(i)[j]
                   IN  /\ args.childAs \in DOMAIN mid
                       /\ IsChild(mid[args.childAs])
                              \/ mid[args.childAs] = filterMarker
                       /\ (\A c \in 1..Len(children) :
                              ~Equal(children[c].a, parents[i].a))
                          => mid[args.childAs] = filterMarker
    /\ (IsFilterCall /\ args.middleCardinality = Str("one")) =>
           \A i \in 1..Len(parents) :
               /\ args.middleAs \in DOMAIN result.items[i]
               /\ Len(middle) = 0 =>
                      result.items[i][args.middleAs] = filterMarker
               /\ Len(middle) > 0 =>
                      ~IsNullish(result.items[i][args.middleAs])

\* C25: every one-to-one resolution of the library marks absence with the
\* same value, null, under a field that is present: attachChild,
\* attachChildComposite, attachChildNested, joinBySelectors mode "one", and
\* attachChildrenWithFilter under childAs and under middleAs.
C25_SameAbsenceMarker == JoinReturned => AbsenceMarkers(Null)

\* C25 amended: the flat, selector, composite and nested one-to-one joins
\* mark absence with null and attachChildrenWithFilter with undefined, under
\* childAs and under middleAs; in all of them the field is present in every
\* record of the output.
C25_AbsenceMarkerPerOperator == JoinReturned => AbsenceMarkers(Undefined)

\* a filter join with both cardinalities "one": the parent has a middle
\* record, and that record no child of the parent, whose key is an array:
\* the key of the child is another array of the same content
C25_Witness ==
    /\ IsFilterCall
    /\ args.childCardinality = Str("one") /\ args.middleCardinality = Str("one")
    /\ Len(parents) = 1 /\ Len(middle) = 1 /\ Len(children) = 1
    /\ parents[1].a = KeyObject(1)
    /\ children[1].a = KeyObject(2)
    /\ SameKey(children[1].b, middle[1].b)
    /\ args.middleAs = "out"
    /\ result.items[1].out.items = Undefined

(***************************************************************************)
(* The filter join as a flat join per parent.                              *)
(***************************************************************************)
\* C26: with both cardinalities "many" or omitted, what the filter join
\* attaches to a parent p under middleAs is what attachChildren returns for
\* the middle records as parents and the children of p (those with
\* c[childParentKey] == p[parentKey]) as children, joined on middleKey and
\* childKey under childAs; the whole result is the result of the earlier
\* version of the function, which has no cardinalities.
C26_FilterJoinIsFlatJoinPerParent ==
    (IsFilterCall /\ MiddleMany /\ ChildMany) =>
        /\ \A i \in 1..Len(parents) :
               result.items[i][args.middleAs] =
                   attachChildren(
                       [parents |-> middle,
                        children |->
                            SelectSeq(children, LAMBDA c :
                                Equal(Get(c, args.childParentKey),
                                      Get(parents[i], args.parentKey))),
                        parentKey |-> args.middleKey,
                        childKey |-> args.childKey,
                        as |-> args.childAs])
        /\ result = attachChildrenWithFilter_withoutCardinality(args)

\* two parents and two middle records; the two children belong to the first
\* parent and to the same middle record
C26_Witness ==
    /\ IsFilterCall
    /\ args.middleCardinality = Undefined /\ args.childCardinality = Undefined
    /\ Len(parents) = 2 /\ Len(middle) = 2 /\ Len(children) = 2
    /\ parents[1].a # parents[2].a /\ middle[1].b # middle[2].b
    /\ children[1].a = parents[1].a /\ children[2].a = parents[1].a
    /\ children[1].b = middle[2].b /\ children[2].b = middle[2].b
    /\ args.middleAs = "out"
    /\ result.items[1].out.items[2].items = Arr(children)
    /\ result.items[2].out.items[2].items = Arr(<<>>)

(***************************************************************************)
(* Composite joins over one field.                                         *)
(***************************************************************************)
\* the parameters of the flat join on the one field of the key tuples
OneFieldParams ==
    [parents |-> args.parents, children |-> args.children,
     parentKey |-> args.parentKeys[1], childKey |-> args.childKeys[1],
     as |-> args.as]

\* C27: with parentKeys = [parentKey] and childKeys = [childKey], the
\* composite and the nested one-to-many joins return what attachChildren
\* returns for parentKey and childKey, and the one-to-one ones what
\* attachChild returns, whatever the key values are (numbers, strings, null).
C27_OneFieldCompositeIsFlat ==
    (/\ op \in {"attachChildrenComposite", "attachChildrenNested",
                "attachChildComposite", "attachChildNested"}
     /\ Len(args.parentKeys) = 1)
    => result = IF op \in {"attachChildrenComposite", "attachChildrenNested"}
                THEN attachChildren(OneFieldParams)
                ELSE attachChild(OneFieldParams)

(***************************************************************************)
(* Composite groups and nested groups.                                     *)
(***************************************************************************)
\* the name of the group of a record in groupByComposite(items, keys)
CompositeNameOf(keys, r) == String(makeCompositeKeyExtractor(keys, r))

\* the partition of groupByComposite(items, keys), which is result, is the
\* partition of groupByMany(items, keys): both calls return, the group of
\* every record holds the records of its leaf in the same order, and two
\* records share a group exactly when they share a leaf
SamePartition ==
    LET keys == args.keys
        tree == groupByMany(inputItems, keys)
    IN  /\ result # Thrown
        /\ tree # Thrown
        /\ \A i \in 1..Len(inputItems) :
               /\ CompositeNameOf(keys, inputItems[i]) \in DOMAIN result.m
               /\ result.m[CompositeNameOf(keys, inputItems[i])] =
                      Walk(tree, PathOf(keys, inputItems[i]))
        /\ \A i, j \in 1..Len(inputItems) :
               (CompositeNameOf(keys, inputItems[i]) =
                    CompositeNameOf(keys, inputItems[j]))
               <=> (PathOf(keys, inputItems[i]) = PathOf(keys, inputItems[j]))
        /\ Cardinality(DOMAIN result.m) =
               Cardinality(TreePaths(tree, Len(keys)))

\* C29: for every items sequence and non-empty field tuple F, two records
\* are in the same group of groupByComposite(items, F) exactly when they are
\* in the same leaf of groupByMany(items, F), and each group has the records
\* of the corresponding leaf in the same order.
C29_CompositeAndNestedPartition ==
    op = "groupByComposite" => SamePartition

(***************************************************************************)
(* Sharing of the attached arrays.                                         *)
(***************************************************************************)
IsOneToManyCall ==
    \/ op \in {"attachChildren", "attachChildrenComposite",
               "attachChildrenNested"}
    \/ op = "joinBySelectors" /\ args.mode = Str("many")

\* the array object the call attached to the i-th parent
AttachedArray(i) ==
    IF op = "attachChildren" THEN attachChildren_matchingChildren(args, i)
    ELSE IF op = "joinBySelectors"
    THEN joinBySelectors_matchingChildren(args, i)
    ELSE IF op = "attachChildrenComposite"
    THEN attachChildrenComposite_matchingChildren(args, i)
    ELSE attachChildrenNested_matchingChildren(args, i)

\* C30: the array a one-to-many join attaches to a parent is not the
\* children array of the caller and not the array object attached to
\* another parent of the same result.
C30_AttachedArraysUnshared ==
    IsOneToManyCall =>
        /\ \A i \in 1..Len(parents) : AttachedArray(i) # InputArray
        /\ \A i, j \in 1..Len(parents) :
               AttachedArray(i) = AttachedArray(j) => i = j

(***************************************************************************)
(* C23.  First-wins index stability.                                       *)
(***************************************************************************)
\* a call that builds a one-to-one index is running or has run
FirstWinsRun == pc # "idle" /\ FirstWins

\* the key the first-wins loop of the call computes for a child
ChildKeyOf(child) ==
    IF op = "attachChild" THEN Get(child, args.childKey)
    ELSE IF op = "attachChildComposite"
    THEN makeCompositeKeyExtractor(args.childKeys, child)
    ELSE Select(args.childSelector, child)

\* the position of the first of the first n children with the key
FirstWithKey(key, n) ==
    CHOOSE i \in 1..n :
        /\ SameKey(ChildKeyOf(args.children[i]), key)
        /\ \A j \in 1..(i - 1) : ~SameKey(ChildKeyOf(args.children[j]), key)

\* after i children the index holds, for each key seen, one entry, whose
\* value is the first of those i children with the key, and nothing else
IndexHoldsFirst ==
    FirstWinsRun =>
        /\ scanned \in 0..Len(args.children)
        /\ \A i \in 1..scanned :
               LET key == ChildKeyOf(args.children[i])
               IN  \E e \in 1..Len(index.entries) :
                       /\ SameKey(index.entries[e].key, key)
                       /\ index.entries[e].value =
                              args.children[FirstWithKey(key, scanned)]
        /\ \A e \in 1..Len(index.entries) :
               /\ \E i \in 1..scanned :
                      SameKey(ChildKeyOf(args.children[i]),
                              index.entries[e].key)
               /\ \A d \in 1..Len(index.entries) :
                      SameKey(index.entries[d].key, index.entries[e].key)
                          => d = e

\* a step of the call leaves every entry of the index as it is
EntriesStay ==
    FirstWinsRun =>
        \A e \in 1..Len(index.entries) :
            /\ e <= Len(index'.entries)
            /\ index'.entries[e] = index.entries[e]

\* C23: while attachChild, joinBySelectors in mode "one" and
\* attachChildComposite scan the children in order, the index after the first
\* i children maps each key seen so far to the first of those i children with
\* that key, and once a key has an entry no later step replaces it.
C23_FirstWinsIndexStability == []IndexHoldsFirst /\ [][EntriesStay]_vars

\* attachChild has scanned two children whose keys are two arrays of the
\* same content: the index holds two entries, one child under each array
C23_Witness ==
    /\ op = "attachChild"
    /\ pc = "index"
    /\ scanned = 2
    /\ args.children[1].a = KeyObject(1)
    /\ args.children[2].a = KeyObject(2)
    /\ Len(index.entries) = 2
    /\ MapGet(index, KeyObject(2)) = args.children[2]

(***************************************************************************)
(* C24.  Termination and the number of visits.                             *)
(***************************************************************************)
\* what the call returns
Returns ==
    CASE op = "attachChildren" -> attachChildren(args)
      [] op = "attachChild" -> attachChild(args)
      [] op = "joinBySelectors" -> joinBySelectors(args)
      [] op = "attachChildrenComposite" -> attachChildrenComposite(args)
      [] op = "attachChildComposite" -> attachChildComposite(args)
      [] op = "attachChildrenNested" -> attachChildrenNested(args)
      [] op = "attachChildNested" -> attachChildNested(args)
      [] op = "attachChildrenWithFilter" -> attachChildrenWithFilter(args)
      [] op = "groupBy" -> groupBy(args.items, args.keySelector)
      [] op = "groupByKey" -> groupByKey(args.items, args.key)
      [] op = "groupByMany" -> groupByMany(args.items, args.keys)
      [] op = "groupByTransform" ->
            groupByTransform(args.items, args.keySelector, args.valueTransform)
      [] op = "groupByComposite" -> groupByComposite(args.items, args.keys)
      [] OTHER -> createNestedGroups(args.items, args.keys)

\* the groups valueTransform has been invoked with when the call returns
Invoked ==
    IF op = "groupByTransform"
    THEN groupByTransform_calls(args.items, args.keySelector,
                                args.valueTransform)
    ELSE <<>>

\* the key tuple the outermost call of the recursion is given
RootKeys == IF op \in NestedJoins THEN args.childKeys ELSE args.keys

\* when the operator has returned, its index loop has visited every child
\* (or item), its output pass every parent, the filter join every
\* parent-middle pair, no call of the recursion is left, and the value built
\* step by step is the value the operator returns; when it has thrown, its
\* loops have stopped within their arrays and no call of the recursion is
\* left, and the operator throws
VisitedAll ==
    pc = "done" =>
        /\ result # Thrown =>
               /\ op \in IndexJoins \cup LoopGroupings
                      => scanned = Len(ScannedArray)
               /\ op \in IndexJoins \cup NestedJoins
                      => emitted = Len(args.parents)
               /\ op = "attachChildrenWithFilter"
                      => pairs = Len(args.parents) * Len(args.middle)
        /\ result = Thrown =>
               /\ op \in IndexJoins \cup LoopGroupings
                      => scanned <= Len(ScannedArray)
               /\ emitted = 0
               /\ pairs = 0
        /\ stack = <<>>
        /\ result = Returns
        /\ calls = Invoked

\* no loop is ahead of its array
WithinArrays ==
    pc \notin {"idle", "done"} =>
        /\ op \in IndexJoins \cup LoopGroupings => scanned <= Len(ScannedArray)
        /\ op \in IndexJoins \cup NestedJoins => emitted <= Len(args.parents)
        /\ op = "attachChildrenWithFilter"
               => /\ pairs = emitted * Len(args.middle) + Len(mids)
                  /\ Len(mids) <= Len(args.middle)
        /\ \A i \in DOMAIN stack :
               /\ stack[i].visited <= Len(stack[i].items)
               /\ stack[i].assigned <= Len(stack[i].groups.keys)

\* the calls that have not returned are at the levels 1 (the outermost) to
\* the level of the running one; a call at level l has the key tuple
\* shortened l - 1 times, and only the outermost may have no key: the
\* recursion is as deep as the key tuple is long
LevelsMatchKeys ==
    \A i \in DOMAIN stack :
        /\ stack[i].level = Len(stack) - i + 1
        /\ stack[i].level + Len(stack[i].keys) = Len(RootKeys) + 1
        /\ stack[i].level > 1 => Len(stack[i].keys) >= 1

\* a step visits at most one more child, one more parent and one more pair,
\* and never goes back; every iteration of the index loop moves on to the
\* next child and every callback of the output pass to the next parent or
\* pair
OneVisitPerStep ==
    /\ scanned' \in {scanned, scanned + 1}
    /\ emitted' \in {emitted, emitted + 1}
    /\ pairs' \in {pairs, pairs + 1}
    /\ scanned' + emitted' + pairs' <= scanned + emitted + pairs + 1
    /\ pc = "index" /\ pc' = "index" => scanned' = scanned + 1
    /\ pc = "output" /\ pc' = "output"
           => emitted' + pairs' = emitted + pairs + 1

\* a step of the recursion is one more item of the loop of the running
\* call; or, when that loop is over, a call the running call makes, which
\* has a strictly shorter key tuple and is one level deeper; or the return
\* of the running call, after which its caller has one more entry; a step
\* that throws ends every call
CallsShorten ==
    pc = "recurse" /\ pc' = "recurse" /\ stack # <<>> /\ stack' # stack =>
        LET frame == Head(stack)
        IN  IF Len(stack') = Len(stack)
            THEN /\ frame.visited < Len(frame.items)
                 /\ stack'[1].visited = frame.visited + 1
                 /\ stack'[1].keys = frame.keys
                 /\ stack'[1].level = frame.level
            ELSE IF Len(stack') = Len(stack) + 1
            THEN /\ frame.visited = Len(frame.items)
                 /\ Tail(stack') = stack
                 /\ Len(stack'[1].keys) < Len(frame.keys)
                 /\ stack'[1].level = frame.level + 1
                 /\ stack'[1].visited = 0
            ELSE /\ Len(stack') = Len(stack) - 1
                 /\ Len(frame.keys) = 0 \/ frame.visited = Len(frame.items)
                 /\ stack' # <<>> =>
                        stack'[1].assigned = stack[2].assigned + 1

\* C24: every operator terminates on finite inputs: a call that has begun
\* returns or throws; each index-building loop visits each child once, each
\* output pass each parent (in attachChildrenWithFilter each parent-middle
\* pair) once, and a loop that throws has visited no child twice; the
\* recursion of groupByMany and createNestedGroups strictly shortens the key
\* tuple at each level, so its depth is the number of keys.
C24_Termination ==
    /\ (pc # "idle") ~> (pc = "done")
    /\ [](VisitedAll /\ WithinArrays /\ LevelsMatchKeys)
    /\ [][OneVisitPerStep /\ CallsShorten]_vars

\* attachChildrenWithFilter has returned after two children, two parents and
\* the four pairs of two parents with two middle records
C24_Witness ==
    /\ op = "attachChildrenWithFilter"
    /\ pc = "done"
    /\ scanned = 2 /\ Len(args.children) = 2
    /\ emitted = 2 /\ Len(args.parents) = 2
    /\ pairs = 4 /\ Len(args.middle) = 2

====
